---- MODULE Spec2Model ----
(***************************************************************************)
(* Model of the inventory storage engine: the in-memory store              *)
(* (store/memory.go, InMemoryStore) and the JSON file-backed store         *)
(* (store/file.go, FileStore), their reader/writer lock, the validation    *)
(* and error contracts of the CRUD calls and the save/load discipline of   *)
(* the persisted file.                                                     *)
(*                                                                         *)
(* Every call is a goroutine (a caller) that runs the statements of its    *)
(* method one step at a time: the checks before the lock, the acquisition  *)
(* of s.mu, the statements of the critical section, the steps of           *)
(* saveToFile and the deferred unlock.  Callers run in rounds: every       *)
(* caller issues one call, and when all of them have returned the next     *)
(* round starts from the store they left.                                  *)
(***************************************************************************)
EXTENDS Integers, Sequences, FiniteSets, Bags, TLC

(***************************************************************************)
(* Bounds of the model.                                                    *)
(***************************************************************************)
\* number of goroutines that call the store concurrently
NProcs == 2

Procs == 1..NProcs
\* the goroutine that runs NewInMemoryStore / NewFileStore
Ctor == NProcs + 1
\* no goroutine
NoProc == NProcs + 2

(***************************************************************************)
(* Values of the fields of domain.Product.  Strings are Go strings, that   *)
(* is byte strings: "Caf<E9>" stands for a string holding a byte that is   *)
(* not valid UTF-8 and "Caf<FFFD>" for the same string with that byte      *)
(* replaced by the Unicode replacement rune.                               *)
(***************************************************************************)
BadUTF8 == "Caf<E9>"
Replaced == "Caf<FFFD>"
\* the order of Go's string comparison on the IDs of the model
IDOrder == <<"", "a", "b", "c">>
IDs == {IDOrder[i] : i \in DOMAIN IDOrder}
Names == {"", "Widget", BadUTF8, Replaced}
Prices == {-1, 0, 5}
Quantities == {-1, 0, 2}
Categories == {"C"}
\* the order of Go's string comparison on the names of the model
NameOrder == <<"", BadUTF8, Replaced, "Widget">>

Product == [ID : IDs, Name : Names, Price : Prices, Quantity : Quantities,
            Category : Categories]
\* the zero value domain.Product{}
NoProduct == [ID |-> "", Name |-> "", Price |-> 0, Quantity |-> 0, Category |-> ""]

IDRank(id) == CHOOSE i \in DOMAIN IDOrder : IDOrder[i] = id
NameRank(n) == CHOOSE i \in DOMAIN NameOrder : NameOrder[i] = n

(***************************************************************************)
(* Errors (domain/errors.go) and results of a call.                        *)
(***************************************************************************)
Result(kind, field, id, product, list) ==
    [kind |-> kind, field |-> field, id |-> id, product |-> product, list |-> list]
Ok == Result("ok", "", "", NoProduct, <<>>)
NoRes == Result("none", "", "", NoProduct, <<>>)
\* ctx.Err(): context.Canceled or context.DeadlineExceeded
CtxErr == Result("ctx", "", "", NoProduct, <<>>)
\* an error of the os / ioutil / json calls of saveToFile and loadFromFile
IOErr == Result("io", "", "", NoProduct, <<>>)
\* NewStore's fmt.Errorf("file path required ..."), fmt.Errorf("unknown store kind ...")
ConfigErr == Result("config", "", "", NoProduct, <<>>)
NewProductNotFoundError(id) == Result("NotFound", "", id, NoProduct, <<>>)
NewInvalidProductError(field) == Result("Invalid", field, "", NoProduct, <<>>)
NewDuplicateProductError(id) == Result("Duplicate", "", id, NoProduct, <<>>)

(***************************************************************************)
(* The map products map[string]domain.Product.                             *)
(***************************************************************************)
EmptyMap == [k \in {} |-> NoProduct]
Has(m, id) == id \in DOMAIN m
MapPut(m, id, p) == [k \in (DOMAIN m) \cup {id} |-> IF k = id THEN p ELSE m[k]]
MapDelete(m, id) == [k \in (DOMAIN m) \ {id} |-> m[k]]
Values(m) == {m[k] : k \in DOMAIN m}

(***************************************************************************)
(* The checks the calls make before they take the lock.                    *)
(***************************************************************************)
\* a variant of CreateChecks that takes a Price of 0 for negative
CreateChecksPositive(ctxDone, product) ==
    IF ctxDone THEN CtxErr
    ELSE IF product.ID = "" THEN NewInvalidProductError("id")
    ELSE IF product.Name = "" THEN NewInvalidProductError("name")
    ELSE IF product.Price <= 0 THEN NewInvalidProductError("price")
    ELSE IF product.Quantity < 0 THEN NewInvalidProductError("quantity")
    ELSE Ok

\* Create: ctx, then ID, Name, Price, Quantity; the first failure returns
CreateChecks(ctxDone, product) ==
    IF ctxDone THEN CtxErr
    ELSE IF product.ID = "" THEN NewInvalidProductError("id")
    ELSE IF product.Name = "" THEN NewInvalidProductError("name")
    ELSE IF product.Price < 0 THEN NewInvalidProductError("price")
    ELSE IF product.Quantity < 0 THEN NewInvalidProductError("quantity")
    ELSE Ok

\* a variant of UpdateChecks that tests Quantity before Price
UpdateChecksQuantityFirst(ctxDone, product) ==
    IF ctxDone THEN CtxErr
    ELSE IF product.Name = "" THEN NewInvalidProductError("name")
    ELSE IF product.Quantity < 0 THEN NewInvalidProductError("quantity")
    ELSE IF product.Price < 0 THEN NewInvalidProductError("price")
    ELSE Ok

\* Update: ctx, then Name, Price, Quantity (the ID of the record is not read)
UpdateChecks(ctxDone, product) ==
    IF ctxDone THEN CtxErr
    ELSE IF product.Name = "" THEN NewInvalidProductError("name")
    ELSE IF product.Price < 0 THEN NewInvalidProductError("price")
    ELSE IF product.Quantity < 0 THEN NewInvalidProductError("quantity")
    ELSE Ok

\* a variant of CtxCheck that does not look at the context
CtxCheckSkipped(ctxDone) == Ok

\* Get, Delete, List: ctx only
CtxCheck(ctxDone) == IF ctxDone THEN CtxErr ELSE Ok

\* a variant of ValidateProduct that tests Price before Name
ValidateProductPriceFirst(p) ==
    IF p.Price < 0 THEN NewInvalidProductError("price")
    ELSE IF p.Name = "" THEN NewInvalidProductError("name")
    ELSE IF p.Quantity < 0 THEN NewInvalidProductError("quantity")
    ELSE Ok

\* domain.ValidateProduct: Name, then Price, then Quantity
ValidateProduct(p) ==
    IF p.Name = "" THEN NewInvalidProductError("name")
    ELSE IF p.Price < 0 THEN NewInvalidProductError("price")
    ELSE IF p.Quantity < 0 THEN NewInvalidProductError("quantity")
    ELSE Ok

(***************************************************************************)
(* Files.  The content of a file is absent (no file), empty (zero bytes),  *)
(* malformed (bytes that are no JSON array), partial (a write that was     *)
(* cut short) or the JSON text of a list of products.                      *)
(***************************************************************************)
FileOf(kind, list) == [kind |-> kind, list |-> list]
Absent == FileOf("absent", <<>>)
EmptyFile == FileOf("empty", <<>>)
Malformed == FileOf("malformed", <<>>)
Partial == FileOf("partial", <<>>)

\* encoding/json writes a Go string as a JSON string coerced to valid UTF-8
\* and reads a JSON string the same way: invalid bytes become U+FFFD
CoerceUTF8(s) == IF s = BadUTF8 THEN Replaced ELSE s
JSONProduct(p) ==
    [ID |-> CoerceUTF8(p.ID), Name |-> CoerceUTF8(p.Name), Price |-> p.Price,
     Quantity |-> p.Quantity, Category |-> CoerceUTF8(p.Category)]
\* json.MarshalIndent(list, "", "  ")
Marshal(list) == FileOf("json", [i \in DOMAIN list |-> JSONProduct(list[i])])
\* json.Unmarshal(b, &list) of a JSON array
Unmarshal(f) == [i \in DOMAIN f.list |-> JSONProduct(f.list[i])]

\* the records of the JSON array of the file f that have the ID id
Holding(f, id) == {Unmarshal(f)[i] : i \in {j \in DOMAIN f.list : f.list[j].ID = id}}

\* the orders in which a range over the map can visit its keys
KeyOrders(m) ==
    {o \in [1..Cardinality(DOMAIN m) -> DOMAIN m] :
        \A i, j \in DOMAIN o : i # j => o[i] # o[j]}

\* saveToFile's list: the records of the map, sorted by sort.Slice on the ID
SortedLists(m) ==
    {[i \in DOMAIN o |-> m[o[i]]] : o \in
        {k \in KeyOrders(m) :
            \A i, j \in DOMAIN k :
                i < j => ~(IDRank(m[k[j]].ID) < IDRank(m[k[i]].ID))}}

\* loadFromFile's loop: for _, p := range list { s.products[p.ID] = p }
RECURSIVE LoadList(_, _)
LoadList(m, list) ==
    IF list = <<>> THEN m
    ELSE LoadList(MapPut(m, Head(list).ID, Head(list)), Tail(list))

\* a variant of LoadFromFile that takes a file of zero bytes for malformed
LoadFromFileStrict(f, readErr) ==
    IF f.kind = "absent" THEN [err |-> Ok, products |-> EmptyMap]
    ELSE IF readErr THEN [err |-> IOErr, products |-> EmptyMap]
    ELSE IF f.kind = "json"
         THEN [err |-> Ok, products |-> LoadList(EmptyMap, Unmarshal(f))]
    ELSE [err |-> IOErr, products |-> EmptyMap]

\* loadFromFile on the content f of the file at s.path, when ReadFile fails
\* (readErr) or not: the error it returns and the map it leaves
LoadFromFile(f, readErr) ==
    IF f.kind = "absent" THEN [err |-> Ok, products |-> EmptyMap]
    ELSE IF readErr THEN [err |-> IOErr, products |-> EmptyMap]
    ELSE IF f.kind = "empty" THEN [err |-> Ok, products |-> EmptyMap]
    ELSE IF f.kind = "json"
         THEN [err |-> Ok, products |-> LoadList(EmptyMap, Unmarshal(f))]
    ELSE [err |-> IOErr, products |-> EmptyMap]

(***************************************************************************)
(* domain.ListFilter.  A *float64 is a record: set is FALSE for nil.       *)
(***************************************************************************)
Nil == [set |-> FALSE, v |-> 0]
Ptr(v) == [set |-> TRUE, v |-> v]
ListFilter(category, minPrice, maxPrice, sortBy, order) ==
    [Category |-> category, MinPrice |-> minPrice, MaxPrice |-> maxPrice,
     SortBy |-> sortBy, Order |-> order]
NoFilter == ListFilter("", Nil, Nil, "", "")
Filters == {NoFilter,
            ListFilter("C", Nil, Nil, "name", "desc"),
            ListFilter("D", Nil, Nil, "name", "asc"),
            ListFilter("", Ptr(5), Nil, "quantity", ""),
            ListFilter("", Nil, Ptr(0), "name", "asc"),
            ListFilter("", Ptr(0), Ptr(5), "price", "desc"),
            ListFilter("", Nil, Nil, "price", "up"),
            ListFilter("", Nil, Nil, "quantity", "desc")}

\* a variant of Passes whose price bounds are exclusive
PassesExclusive(filter, p) ==
    /\ ~(filter.Category # "" /\ p.Category # filter.Category)
    /\ ~(filter.MinPrice.set /\ p.Price <= filter.MinPrice.v)
    /\ ~(filter.MaxPrice.set /\ p.Price >= filter.MaxPrice.v)

\* the loop of List: does the record pass the filter
Passes(filter, p) ==
    /\ ~(filter.Category # "" /\ p.Category # filter.Category)
    /\ ~(filter.MinPrice.set /\ p.Price < filter.MinPrice.v)
    /\ ~(filter.MaxPrice.set /\ p.Price > filter.MaxPrice.v)

\* a variant of Less that does not read filter.Order
LessAscending(filter, x, y) ==
    IF filter.SortBy = "name" THEN NameRank(x.Name) < NameRank(y.Name)
    ELSE IF filter.SortBy = "price" THEN x.Price < y.Price
    ELSE IF filter.SortBy = "quantity" THEN x.Quantity < y.Quantity
    ELSE FALSE

\* the less function List gives to sort.Slice
Less(filter, x, y) ==
    IF filter.SortBy = "name"
    THEN IF filter.Order = "desc" THEN NameRank(x.Name) > NameRank(y.Name)
         ELSE NameRank(x.Name) < NameRank(y.Name)
    ELSE IF filter.SortBy = "price"
    THEN IF filter.Order = "desc" THEN x.Price > y.Price ELSE x.Price < y.Price
    ELSE IF filter.SortBy = "quantity"
    THEN IF filter.Order = "desc" THEN x.Quantity > y.Quantity
         ELSE x.Quantity < y.Quantity
    ELSE FALSE

\* sort.Slice(out, less) when SortBy is name, price or quantity: out in an
\* order in which no record is less than one before it (the sort is not
\* stable); out as it is for any other SortBy
SortSlice(filter, out) ==
    IF filter.SortBy \in {"name", "price", "quantity"}
    THEN {[i \in DOMAIN out |-> out[o[i]]] : o \in
            {k \in [DOMAIN out -> DOMAIN out] :
                /\ \A i, j \in DOMAIN out : i # j => k[i] # k[j]
                /\ \A i, j \in DOMAIN out :
                      i < j => ~Less(filter, out[k[j]], out[k[i]])}}
    ELSE {out}

\* the slices List can return: the map is ranged over in any order, the
\* records that pass are appended, and sort.Slice (not stable) orders them
ListResults(m, filter) ==
    LET kept(o) == SelectSeq([i \in DOMAIN o |-> m[o[i]]],
                             LAMBDA p : Passes(filter, p))
        outs == {kept(o) : o \in KeyOrders(m)}
    IN  IF filter.SortBy \in {"name", "price", "quantity"}
        THEN {out \in outs :
                \A i, j \in DOMAIN out : i < j => ~Less(filter, out[j], out[i])}
        ELSE outs

(***************************************************************************)
(* A call: the method, its arguments and the state of its context when     *)
(* the method checks it.                                                   *)
(***************************************************************************)
Req(op, id, product, filter, batch, ctxDone) ==
    [op |-> op, id |-> id, product |-> product, filter |-> filter,
     batch |-> batch, ctxDone |-> ctxDone]
NoReq == Req("none", "", NoProduct, NoFilter, <<>>, FALSE)
WriteOps == {"Create", "Update", "Delete", "BulkImport"}
ReadOps == {"Get", "List"}

\* Get between RLock and RUnlock
GetResult(m, id) ==
    IF Has(m, id) THEN Result("ok", "", "", m[id], <<>>)
    ELSE NewProductNotFoundError(id)

\* BulkImport's collected: nil, the only error, or
\* fmt.Errorf("%v; %w", collected, e) for each further error e
Aggregate(errs) ==
    IF errs = <<>> THEN Ok
    ELSE IF Len(errs) = 1 THEN errs[1]
    ELSE Result("agg", "", "", NoProduct, errs)

\* const maxWorkers = 10
maxWorkers == 10

\* InMemoryStore.BulkImport's fmt.Errorf("id=%s: %w", p.ID, err)
Item(id, e) == Result("item", "", id, NoProduct, <<e>>)

\* a variant of Is that does not follow the chain of wrapped errors
IsShallow(e, k) == e.kind = k

\* errors.Is, errors.As: the error e is of kind k, or wraps with %w an
\* error that is; fmt.Errorf("%v; %w", collected, e) wraps e alone
RECURSIVE Is(_, _)
Is(e, k) ==
    IF e.kind = k THEN TRUE
    ELSE IF e.kind = "item" THEN Is(e.list[1], k)
    ELSE IF e.kind = "agg" THEN Is(e.list[Len(e.list)], k)
    ELSE FALSE

\* domain.IsProductNotFoundError, IsInvalidProductError and
\* IsDuplicateProductError: errors.As with a target of the type of the kind
IsProductNotFoundError(err) == Is(err, "NotFound")
IsInvalidProductError(err) == Is(err, "Invalid")
IsDuplicateProductError(err) == Is(err, "Duplicate")

\* the locals of a BulkImport: the indices of the records not yet sent on
\* jobs (todo), whether the feeder runs (feeding) and whether jobs is
\* closed (closed), the workers started (spawned) and those that have not
\* returned (live), the records a worker has received and not yet looked at
\* (got), those whose Create has passed its checks and waits for s.mu (chk),
\* the one whose Create holds s.mu (cs, NoProduct for none) and what that
\* Create returns (csRes), the number of records a worker has handled to
\* the end (fin) and of results the collector has received (rcv), whether
\* the context has been cancelled since the call began (ctx), toAdd, the
\* errors sent on errs or results, the keys of toAdd the merge has still to
\* visit (left), the calls of saveToFile the call has made (saves), whether
\* the feeder has taken case <-ctx.Done() (seen), and whether it has sent
\* a record on jobs after that (late)
Bulk(todo, toAdd, errs, left) ==
    [todo |-> todo, feeding |-> FALSE, closed |-> FALSE, spawned |-> 0, live |-> 0,
     got |-> EmptyBag, chk |-> EmptyBag, cs |-> NoProduct, csRes |-> NoRes,
     fin |-> 0, rcv |-> 0, ctx |-> FALSE,
     toAdd |-> toAdd, errs |-> errs, left |-> left, saves |-> 0,
     seen |-> FALSE, late |-> FALSE]
NoBulk == Bulk({}, EmptyMap, <<>>, {})

(***************************************************************************)
(* State.                                                                  *)
(***************************************************************************)
VARIABLES
    backend,    \* "memory" (InMemoryStore) or "file" (FileStore)
    phase,      \* construction: "new", "load", "loaded", "loadfail", "ready", "failed"
    products,   \* s.products
    mu,         \* s.mu: the goroutine holding the write lock, those holding the read lock
    file,       \* the content of the file at s.path
    tmp,        \* the content of the file at s.path + ".tmp"
    callers,    \* the goroutines that call the store
    faulty,     \* whether the calls of os and ioutil can fail in this run
    pc,         \* where each caller is in its call
    req,        \* the call each caller is running
    res,        \* what the call returns
    buf,        \* saveToFile's b, of each caller
    iter,       \* the keys the range loop of List has visited, of each caller
    bulk,       \* the locals of BulkImport, of each caller
    held,       \* whether the call of each caller has held s.mu
    pre,        \* products, file and tmp when the round began
    access,     \* the last access to the map or to the files, and who made it
    ioFailed,   \* some save has failed since the store was constructed
    unsaved,    \* the IDs whose Create returned the error of its save in an
                \* earlier round, whose records the map still holds as created and
                \* the canonical file does not hold
    dcall       \* the last call of a function of package domain or of NewStore

vars == <<backend, phase, products, mu, file, tmp, callers, faulty, pc, req, res,
          buf, iter, bulk, held, pre, access, ioFailed, unsaved, dcall>>

\* the variables no step of a call changes
setup == <<backend, phase, callers, faulty, pre, unsaved, dcall>>

Unlocked == [writer |-> NoProc, readers |-> {}]
Access(p, kind) == [proc |-> p, kind |-> kind]
Snapshot == [products |-> products, file |-> file, tmp |-> tmp]

\* sync.RWMutex: Lock waits until no goroutine holds the lock,
\* RLock until no goroutine holds the write lock
CanLock(m) == m.writer = NoProc /\ m.readers = {}
CanRLock(m) == m.writer = NoProc

(***************************************************************************)
(* The inputs of the model.                                                *)
(***************************************************************************)
ValidProduct(p) == p.ID # "" /\ p.Name # "" /\ p.Price >= 0 /\ p.Quantity >= 0
Widget(id) == [ID |-> id, Name |-> "Widget", Price |-> 5, Quantity |-> 0, Category |-> "C"]
Cafe(id) == [ID |-> id, Name |-> Replaced, Price |-> 0, Quantity |-> 0, Category |-> "C"]
Nameless(id) == [Widget(id) EXCEPT !.Name = ""]
Stocked(id) == [Widget(id) EXCEPT !.Quantity = 2]

\* the files a store is constructed over
InitFiles == {Absent, EmptyFile, Malformed,
              Marshal(<<Widget("a")>>),
              Marshal(<<Cafe("a"), Widget("b")>>)}

\* files that another program has written: JSON arrays whose records break
\* the record invariant
Overdrawn(id) == [Widget(id) EXCEPT !.Price = -1]
ForeignFiles == {Marshal(<<Nameless("a"), Overdrawn("b")>>)}

\* the calls a lone caller makes on a disk that works, those it makes on a
\* disk that can fail, and those concurrent callers make
Lone == Cardinality(callers) = 1
SeqProducts == {p \in Product : p.ID # "c" /\ (p.Quantity = 2 => p = Stocked(p.ID))}
FaultProducts == {Widget("a"), Cafe("a"), Widget("b"), Nameless("b")}
ConcProducts == {Widget("a"), Cafe("a"), Widget("b")}
ArgProducts ==
    IF ~Lone THEN ConcProducts ELSE IF faulty THEN FaultProducts ELSE SeqProducts
ArgUpdates ==
    IF ~Lone THEN {Cafe("b")} ELSE IF faulty THEN FaultProducts ELSE SeqProducts
ArgIDs == IF Lone THEN IDs \ {"c"} ELSE {"a", "b"}
ArgFilters == IF Lone /\ ~faulty THEN Filters ELSE {NoFilter}
ArgBatches ==
    IF Lone
    THEN {<<>>, <<Widget("a")>>, <<Widget("a"), Cafe("a")>>,
          <<Nameless("a"), Cafe("b")>>}
         \cup (IF faulty THEN {} ELSE {<<Nameless("b")>>})
    ELSE {<<Cafe("b")>>}
\* a batch of more records than BulkImport starts workers
ManyBatches == {[i \in 1..(maxWorkers + 1) |-> Nameless("a")]}
\* whether the context of the call is done when the call checks it
ArgCtx == IF Lone THEN BOOLEAN ELSE {FALSE}
\* whether a call of os, ioutil fails
Faults == IF faulty THEN BOOLEAN ELSE {FALSE}

\* no call of package domain or of the factory has been made
NoCall == [fn |-> "none", arg |-> NoProduct, out |-> NoRes]

\* a store that is about to be constructed, and callers that have not called
Fresh ==
    /\ phase = "new"
    /\ products = EmptyMap
    /\ mu = Unlocked
    /\ tmp = Absent
    /\ pc = [p \in Procs |-> "idle"]
    /\ req = [p \in Procs |-> NoReq]
    /\ res = [p \in Procs |-> NoRes]
    /\ buf = [p \in Procs |-> Absent]
    /\ iter = [p \in Procs |-> {}]
    /\ bulk = [p \in Procs |-> NoBulk]
    /\ held = [p \in Procs |-> FALSE]
    /\ pre = [products |-> EmptyMap, file |-> file, tmp |-> Absent]
    /\ access = Access(NoProc, "none")
    /\ ioFailed = FALSE
    /\ unsaved = {}
    /\ dcall = NoCall

InitStore ==
    /\ backend \in {"memory", "file"}
    /\ file \in IF backend = "file" THEN InitFiles ELSE {Absent}
    /\ Fresh

\* one caller, whose calls run one after the other, on a disk that works
Init == InitStore /\ callers = {1} /\ faulty = FALSE
\* one caller, on a disk that can fail
InitFaults == InitStore /\ callers = {1} /\ faulty = TRUE
\* NProcs callers, whose calls run concurrently, on a disk that works
InitConc == InitStore /\ callers = Procs /\ faulty = FALSE

\* no store yet: NewStore has not been called.  The path given to it may
\* hold any file
InitDomain ==
    /\ backend = "none"
    /\ file \in InitFiles \cup ForeignFiles
    /\ Fresh
    /\ callers = {1} /\ faulty = FALSE

(***************************************************************************)
(* Package domain and the factory: ValidateProduct, the helpers that tell  *)
(* the kind of an error, and NewStore.                                     *)
(***************************************************************************)
\* the arguments of NewStore
Kinds == {"memory", "mem", "file", "sql", ""}
Paths == {"", "inventory.json"}
\* the fields an InvalidProductError names
Fields == {"id", "name", "price", "quantity", "bulk"}

\* the errors given to the helpers: the errors of the store, alone, wrapped
\* with the ID of a record by InMemoryStore.BulkImport, and joined by
\* BulkImport
Errors ==
    LET base == {NewProductNotFoundError(id) : id \in IDs}
                \cup {NewInvalidProductError(f) : f \in Fields}
                \cup {NewDuplicateProductError(id) : id \in IDs}
                \cup {CtxErr, IOErr}
    IN  base
        \cup {Item("a", e) : e \in base}
        \cup {Aggregate(<<d, e>>) : d, e \in base}
        \cup {Aggregate(<<Item("a", d), Item("b", e)>>) : d, e \in base}

\* a call of the function fn on arg, which returned out.  The functions
\* read no state: a call that follows another one shows no more than the
\* same call made in its place, and is left out
Call(fn, arg, out) ==
    /\ dcall.fn \in {"none", "NewStore"}
    /\ dcall' = [fn |-> fn, arg |-> arg, out |-> out]
    /\ UNCHANGED <<backend, phase, products, mu, file, tmp, callers, faulty, pc, req,
                   res, buf, iter, bulk, held, pre, access, ioFailed, unsaved>>

CallValidateProduct == \E p \in Product : Call("ValidateProduct", p, ValidateProduct(p))

\* the three helpers, called on the same error
CallIs ==
    \E err \in Errors :
        Call("Is", err, [NotFound |-> IsProductNotFoundError(err),
                         Invalid |-> IsInvalidProductError(err),
                         Duplicate |-> IsDuplicateProductError(err)])

\* a variant of NewStoreCase that takes every kind it does not know for
\* "memory"
NewStoreCaseLenient(kind, path) ==
    IF kind = "file" THEN IF path = "" THEN "error" ELSE "file"
    ELSE "memory"

\* NewStore's switch: the constructor it calls, or "error"
NewStoreCase(kind, path) ==
    IF kind \in {"memory", "mem"} THEN "memory"
    ELSE IF kind = "file" THEN IF path = "" THEN "error" ELSE "file"
    ELSE "error"

\* NewStore(kind, path) up to the call of the constructor, or to the return
\* of nil and an error
NewStore ==
    /\ phase = "new" /\ backend = "none"
    /\ \E kind \in Kinds, path \in Paths :
         LET c == NewStoreCase(kind, path) IN
         /\ backend' = IF c = "error" THEN backend ELSE c
         /\ phase' = IF c = "error" THEN "failed" ELSE phase
         /\ dcall' = [fn |-> "NewStore", arg |-> [kind |-> kind, path |-> path],
                      out |-> IF c = "error" THEN ConfigErr ELSE NoRes]
    /\ UNCHANGED <<products, mu, file, tmp, callers, faulty, pc, req, res, buf, iter,
                   bulk, held, pre, access, ioFailed, unsaved>>

(***************************************************************************)
(* Construction: NewInMemoryStore, NewFileStore and loadFromFile.          *)
(***************************************************************************)
NewInMemoryStore ==
    /\ phase = "new" /\ backend = "memory"
    /\ phase' = "ready"
    /\ products' = EmptyMap
    /\ pre' = [pre EXCEPT !.products = EmptyMap]
    /\ access' = Access(Ctor, "none")
    /\ UNCHANGED <<backend, callers, faulty, unsaved, dcall, mu, file, tmp, pc, req, res, buf, iter,
                   bulk, held, ioFailed>>

\* NewFileStore up to loadFromFile's s.mu.Lock()
NewFileStore ==
    /\ phase = "new" /\ backend = "file"
    /\ CanLock(mu)
    /\ mu' = [writer |-> Ctor, readers |-> {}]
    /\ phase' = "load"
    /\ products' = EmptyMap
    /\ access' = Access(Ctor, "none")
    /\ UNCHANGED <<backend, callers, faulty, unsaved, dcall, pre, file, tmp, pc, req, res, buf, iter,
                   bulk, held, ioFailed>>

\* loadFromFile between Lock and the deferred Unlock
loadFromFile ==
    /\ phase = "load"
    /\ \E readErr \in Faults :
         LET r == LoadFromFile(file, readErr) IN
         /\ products' = r.products
         /\ phase' = IF r.err = Ok THEN "loaded" ELSE "loadfail"
    /\ access' = Access(Ctor, "write")
    /\ UNCHANGED <<backend, callers, faulty, unsaved, dcall, pre, mu, file, tmp, pc, req, res, buf, iter,
                   bulk, held, ioFailed>>

\* loadFromFile's deferred Unlock and NewFileStore's return
NewFileStoreReturn ==
    /\ phase \in {"loaded", "loadfail"}
    /\ mu' = [mu EXCEPT !.writer = NoProc]
    /\ phase' = IF phase = "loaded" THEN "ready" ELSE "failed"
    /\ pre' = [pre EXCEPT !.products = products]
    /\ access' = Access(Ctor, "none")
    /\ UNCHANGED <<backend, callers, faulty, unsaved, dcall, products, file, tmp, pc, req, res, buf, iter,
                   bulk, held, ioFailed>>

(***************************************************************************)
(* The start of a call: the checks before the lock.                        *)
(***************************************************************************)
\* caller p starts call r, whose checks before the lock give e; a call
\* that passes them goes on at `next`
Begin(p, r, e, next) ==
    /\ req' = [req EXCEPT ![p] = r]
    /\ pc' = [pc EXCEPT ![p] = IF e = Ok THEN next ELSE "done"]
    /\ res' = [res EXCEPT ![p] = IF e = Ok /\ next # "done" THEN NoRes ELSE e]
    /\ held' = [held EXCEPT ![p] = FALSE]
    /\ access' = Access(p, "none")
    /\ UNCHANGED <<setup, products, mu, file, tmp, buf, iter, ioFailed>>

Create(p) ==
    /\ phase = "ready" /\ p \in callers /\ pc[p] = "idle"
    /\ \E product \in ArgProducts, ctxDone \in ArgCtx :
        Begin(p, Req("Create", product.ID, product, NoFilter, <<>>, ctxDone),
              CreateChecks(ctxDone, product), "lock")
    /\ UNCHANGED bulk

Get(p) ==
    /\ phase = "ready" /\ p \in callers /\ pc[p] = "idle"
    /\ \E id \in ArgIDs, ctxDone \in ArgCtx :
        Begin(p, Req("Get", id, NoProduct, NoFilter, <<>>, ctxDone),
              CtxCheck(ctxDone), "lock")
    /\ UNCHANGED bulk

Update(p) ==
    /\ phase = "ready" /\ p \in callers /\ pc[p] = "idle"
    /\ \E id \in ArgIDs, product \in ArgUpdates, ctxDone \in ArgCtx :
        Begin(p, Req("Update", id, product, NoFilter, <<>>, ctxDone),
              UpdateChecks(ctxDone, product), "lock")
    /\ UNCHANGED bulk

Delete(p) ==
    /\ phase = "ready" /\ p \in callers /\ pc[p] = "idle"
    /\ \E id \in ArgIDs, ctxDone \in ArgCtx :
        Begin(p, Req("Delete", id, NoProduct, NoFilter, <<>>, ctxDone),
              CtxCheck(ctxDone), "lock")
    /\ UNCHANGED bulk

List(p) ==
    /\ phase = "ready" /\ p \in callers /\ pc[p] = "idle"
    /\ \E filter \in ArgFilters, ctxDone \in ArgCtx :
        Begin(p, Req("List", "", NoProduct, filter, <<>>, ctxDone),
              CtxCheck(ctxDone), "lock")
    /\ UNCHANGED bulk

\* a variant of BulkImport that starts the workers before it reads the
\* context
BulkImportLate(p) ==
    /\ phase = "ready" /\ p \in callers /\ pc[p] = "idle"
    /\ \E batch \in ArgBatches, ctxDone \in ArgCtx :
        /\ Begin(p, Req("BulkImport", "", NoProduct, NoFilter, batch, ctxDone),
                 Ok, IF batch = <<>> THEN "done" ELSE "spawn")
        /\ bulk' = [bulk EXCEPT ![p] =
                      [Bulk(DOMAIN batch, EmptyMap, <<>>, {}) EXCEPT !.ctx = ctxDone]]

\* BulkImport of one of the batches given, up to the start of the
\* workers: ctx.Err(), and the return of nil for an empty batch
BulkImportOf(p, batches) ==
    /\ phase = "ready" /\ p \in callers /\ pc[p] = "idle"
    /\ \E batch \in batches, ctxDone \in ArgCtx :
        /\ Begin(p, Req("BulkImport", "", NoProduct, NoFilter, batch, ctxDone),
                 CtxCheck(ctxDone), IF batch = <<>> THEN "done" ELSE "spawn")
        /\ bulk' = [bulk EXCEPT ![p] = IF ctxDone THEN NoBulk
                                       ELSE Bulk(DOMAIN batch, EmptyMap, <<>>, {})]

BulkImport(p) == BulkImportOf(p, ArgBatches)

\* BulkImport by a caller that imports only: it imports the small batches
\* anywhere and the large one, whose records are invalid and never reach
\* the map, into an empty store
BulkImportMany(p) ==
    BulkImportOf(p, ArgBatches \cup (IF products = EmptyMap THEN ManyBatches ELSE {}))

(***************************************************************************)
(* The lock.                                                               *)
(***************************************************************************)
\* a variant of Lock that does not wait for the lock to be free
LockNoWait(p) ==
    /\ pc[p] = "lock" /\ req[p].op \in WriteOps
    /\ mu' = [writer |-> p, readers |-> mu.readers]
    /\ held' = [held EXCEPT ![p] = TRUE]
    /\ pc' = [pc EXCEPT ![p] =
                IF req[p].op # "BulkImport" THEN "check"
                ELSE IF DOMAIN bulk[p].toAdd = {} THEN "save" ELSE "merge"]
    /\ bulk' = [bulk EXCEPT ![p].left = DOMAIN bulk[p].toAdd]
    /\ access' = Access(p, "none")
    /\ UNCHANGED <<setup, products, file, tmp, req, res, buf, iter, ioFailed>>

\* s.mu.Lock() of Create, Update, Delete and of BulkImport's merge
Lock(p) ==
    /\ pc[p] = "lock" /\ req[p].op \in WriteOps
    /\ CanLock(mu)
    /\ mu' = [writer |-> p, readers |-> {}]
    /\ held' = [held EXCEPT ![p] = TRUE]
    /\ pc' = [pc EXCEPT ![p] =
                IF req[p].op # "BulkImport" THEN "check"
                ELSE IF DOMAIN bulk[p].toAdd = {} THEN "save" ELSE "merge"]
    /\ bulk' = [bulk EXCEPT ![p].left = DOMAIN bulk[p].toAdd]
    /\ access' = Access(p, "none")
    /\ UNCHANGED <<setup, products, file, tmp, req, res, buf, iter, ioFailed>>

\* a variant of RLock that does not wait for the writer to leave
RLockNoWait(p) ==
    /\ pc[p] = "lock" /\ req[p].op \in ReadOps
    /\ mu' = [mu EXCEPT !.readers = @ \cup {p}]
    /\ held' = [held EXCEPT ![p] = TRUE]
    /\ pc' = [pc EXCEPT ![p] = "read"]
    /\ access' = Access(p, "none")
    /\ UNCHANGED <<setup, products, file, tmp, req, res, buf, iter, bulk, ioFailed>>

\* s.mu.RLock() of Get, List
RLock(p) ==
    /\ pc[p] = "lock" /\ req[p].op \in ReadOps
    /\ CanRLock(mu)
    /\ mu' = [mu EXCEPT !.readers = @ \cup {p}]
    /\ held' = [held EXCEPT ![p] = TRUE]
    /\ pc' = [pc EXCEPT ![p] = "read"]
    /\ access' = Access(p, "none")
    /\ UNCHANGED <<setup, products, file, tmp, req, res, buf, iter, bulk, ioFailed>>

\* the deferred s.mu.Unlock() and the return of the call
Unlock(p) ==
    /\ pc[p] = "unlock"
    /\ mu' = [mu EXCEPT !.writer = IF @ = p THEN NoProc ELSE @]
    /\ pc' = [pc EXCEPT ![p] = "done"]
    /\ access' = Access(p, "none")
    /\ UNCHANGED <<setup, products, file, tmp, req, res, buf, iter, bulk, held, ioFailed>>

\* the deferred s.mu.RUnlock() and the return of the call
RUnlock(p) ==
    /\ pc[p] = "runlock"
    /\ mu' = [mu EXCEPT !.readers = @ \ {p}]
    /\ pc' = [pc EXCEPT ![p] = "done"]
    /\ access' = Access(p, "none")
    /\ UNCHANGED <<setup, products, file, tmp, req, res, buf, iter, bulk, held, ioFailed>>

(***************************************************************************)
(* The critical sections of Create, Update, Delete, Get and List.          *)
(***************************************************************************)
\* a variant of Refuse that removes the temporary file on the way out
RefuseCleans(p, e) ==
    /\ pc' = [pc EXCEPT ![p] = "unlock"]
    /\ res' = [res EXCEPT ![p] = e]
    /\ tmp' = Absent
    /\ access' = Access(p, "read")
    /\ UNCHANGED <<setup, products, mu, file, req, buf, iter, bulk, held, ioFailed>>

\* the test of the map at the head of the critical section found the call
\* in error: the call returns e
Refuse(p, e) ==
    /\ pc' = [pc EXCEPT ![p] = "unlock"]
    /\ res' = [res EXCEPT ![p] = e]
    /\ access' = Access(p, "read")
    /\ UNCHANGED <<setup, products, mu, file, tmp, req, buf, iter, bulk, held, ioFailed>>

\* the test passed: the call goes on to change the map
Proceed(p) ==
    /\ pc' = [pc EXCEPT ![p] = "mutate"]
    /\ access' = Access(p, "read")
    /\ UNCHANGED <<setup, products, mu, file, tmp, req, res, buf, iter, bulk, held,
                   ioFailed>>

\* the map is changed to m: the in-memory store returns nil, the file
\* store goes on to saveToFile
Mutate(p, m) ==
    /\ products' = m
    /\ pc' = [pc EXCEPT ![p] = IF backend = "file" THEN "save" ELSE "unlock"]
    /\ res' = [res EXCEPT ![p] = IF backend = "file" THEN NoRes ELSE Ok]
    /\ access' = Access(p, "write")
    /\ UNCHANGED <<setup, mu, file, tmp, req, buf, iter, bulk, held, ioFailed>>

\* a variant of CreateExists without the test: Create overwrites
CreateOverwrites(p) ==
    /\ pc[p] = "check" /\ req[p].op = "Create"
    /\ Proceed(p)

\* Create: if _, exists := s.products[product.ID]; exists { return Duplicate }
CreateExists(p) ==
    /\ pc[p] = "check" /\ req[p].op = "Create"
    /\ IF Has(products, req[p].product.ID)
       THEN Refuse(p, NewDuplicateProductError(req[p].product.ID))
       ELSE Proceed(p)

\* a variant of CreateInsert that loses the records inserted before
CreateInsertAlone(p) ==
    /\ pc[p] = "mutate" /\ req[p].op = "Create"
    /\ Mutate(p, MapPut(EmptyMap, req[p].product.ID, req[p].product))

\* Create: s.products[product.ID] = product
CreateInsert(p) ==
    /\ pc[p] = "mutate" /\ req[p].op = "Create"
    /\ Mutate(p, MapPut(products, req[p].product.ID, req[p].product))

\* a variant of UpdateExists without the test: Update inserts
UpdateUpserts(p) ==
    /\ pc[p] = "check" /\ req[p].op = "Update"
    /\ Proceed(p)

\* Update: if _, ok := s.products[id]; !ok { return NotFound }
UpdateExists(p) ==
    /\ pc[p] = "check" /\ req[p].op = "Update"
    /\ IF ~Has(products, req[p].id)
       THEN Refuse(p, NewProductNotFoundError(req[p].id))
       ELSE Proceed(p)

\* a variant of UpdateReplace that stores the record with the ID the caller
\* gave it
UpdateReplaceKeepsID(p) ==
    /\ pc[p] = "mutate" /\ req[p].op = "Update"
    /\ Mutate(p, MapPut(products, req[p].id, req[p].product))

\* Update: product.ID = id; s.products[id] = product
UpdateReplace(p) ==
    /\ pc[p] = "mutate" /\ req[p].op = "Update"
    /\ Mutate(p, MapPut(products, req[p].id, [req[p].product EXCEPT !.ID = req[p].id]))

\* Delete: if _, ok := s.products[id]; !ok { return NotFound }
DeleteExists(p) ==
    /\ pc[p] = "check" /\ req[p].op = "Delete"
    /\ IF ~Has(products, req[p].id)
       THEN Refuse(p, NewProductNotFoundError(req[p].id))
       ELSE Proceed(p)

\* Delete: delete(s.products, id)
DeleteRemove(p) ==
    /\ pc[p] = "mutate" /\ req[p].op = "Delete"
    /\ Mutate(p, MapDelete(products, req[p].id))

\* Get between RLock and the deferred RUnlock
GetRead(p) ==
    /\ pc[p] = "read" /\ req[p].op = "Get"
    /\ res' = [res EXCEPT ![p] = GetResult(products, req[p].id)]
    /\ pc' = [pc EXCEPT ![p] = "runlock"]
    /\ access' = Access(p, "read")
    /\ UNCHANGED <<setup, products, mu, file, tmp, req, buf, iter, bulk, held, ioFailed>>

\* List: one turn of for _, p := range s.products, which visits a key of
\* the map it has not visited and appends the record if it passes
ListVisit(p) ==
    /\ pc[p] = "read" /\ req[p].op = "List"
    /\ \E id \in DOMAIN products \ iter[p] :
         /\ iter' = [iter EXCEPT ![p] = @ \cup {id}]
         /\ res' = [res EXCEPT ![p].list =
                      IF Passes(req[p].filter, products[id])
                      THEN Append(@, products[id]) ELSE @]
    /\ access' = Access(p, "read")
    /\ UNCHANGED <<setup, products, mu, file, tmp, pc, req, buf, bulk, held, ioFailed>>

\* List: the range is over, sort.Slice orders out, and out is what the
\* call will return
ListSort(p) ==
    /\ pc[p] = "read" /\ req[p].op = "List"
    /\ DOMAIN products \subseteq iter[p]
    /\ \E out \in SortSlice(req[p].filter, res[p].list) :
         res' = [res EXCEPT ![p] = Result("ok", "", "", NoProduct, out)]
    /\ pc' = [pc EXCEPT ![p] = "runlock"]
    /\ access' = Access(p, "none")
    /\ UNCHANGED <<setup, products, mu, file, tmp, req, buf, iter, bulk, held,
                   ioFailed>>

(***************************************************************************)
(* BulkImport.  The call starts nWorkers workers and a feeder.  The feeder *)
(* sends the records of the batch on the jobs channel in order; jobs has   *)
(* no buffer, so a record is sent when a worker waits for it.  The workers *)
(* run the same code and have no names: the model keeps the records they   *)
(* hold, in bags, and counts them.  The context can be cancelled while the *)
(* goroutines run.                                                         *)
(***************************************************************************)
\* a variant of NWorkers without the cap: one worker per record
NWorkersUncapped(batch) == Len(batch)

\* nWorkers := maxWorkers; if len(products) < nWorkers { nWorkers = len(products) }
NWorkers(batch) == IF Len(batch) < maxWorkers THEN Len(batch) ELSE maxWorkers

\* the worker's test: p.ID == "" || p.Name == "" || p.Price < 0 || p.Quantity < 0
BulkInvalid(r) == r.ID = "" \/ r.Name = "" \/ r.Price < 0 \/ r.Quantity < 0

\* a variant of StageRecord in which an invalid record empties toAdd
StageRecordAtomic(b, r) ==
    IF BulkInvalid(r)
    THEN [b EXCEPT !.errs = Append(@, NewInvalidProductError("bulk")),
                   !.toAdd = EmptyMap]
    ELSE IF Has(b.toAdd, r.ID)
    THEN [b EXCEPT !.errs = Append(@, NewDuplicateProductError(r.ID))]
    ELSE [b EXCEPT !.toAdd = MapPut(@, r.ID, r)]

\* the body of the worker's loop for the record r, on the locals b
StageRecord(b, r) ==
    IF BulkInvalid(r)
    THEN [b EXCEPT !.errs = Append(@, NewInvalidProductError("bulk"))]
    ELSE IF Has(b.toAdd, r.ID)
    THEN [b EXCEPT !.errs = Append(@, NewDuplicateProductError(r.ID))]
    ELSE [b EXCEPT !.toAdd = MapPut(@, r.ID, r)]

\* the next record of: for _, p := range products
First(todo) == CHOOSE i \in todo : \A j \in todo : i <= j

\* the workers that hold a record, and those that wait on jobs
Busy(b) ==
    BagCardinality(b.got) + BagCardinality(b.chk) + (IF b.cs = NoProduct THEN 0 ELSE 1)
Waiting(b) == b.live - Busy(b)

\* every goroutine the call has started has ended
Ended(b) == b.live = 0 /\ ~b.feeding

\* a step of the goroutines of BulkImport that changes its locals to b
BulkStep(p, b) ==
    /\ bulk' = [bulk EXCEPT ![p] = b]
    /\ access' = Access(p, "none")
    /\ UNCHANGED <<setup, products, mu, file, tmp, pc, req, res, buf, iter, held,
                   ioFailed>>

\* the context of a running BulkImport is cancelled, or its deadline passes
Cancel(p) ==
    /\ pc[p] \in {"spawn", "stage"} /\ ~bulk[p].ctx
    /\ BulkStep(p, [bulk[p] EXCEPT !.ctx = TRUE])

\* wg.Add(nWorkers); for i := 0; i < nWorkers; i++ { go worker() }
BulkSpawn(p) ==
    /\ pc[p] = "spawn" /\ bulk[p].spawned < NWorkers(req[p].batch)
    /\ BulkStep(p, [bulk[p] EXCEPT !.spawned = @ + 1, !.live = @ + 1])

\* go func() { ... }(): the feeder starts
BulkFeed(p) ==
    /\ pc[p] = "spawn" /\ bulk[p].spawned >= NWorkers(req[p].batch)
    /\ bulk' = [bulk EXCEPT ![p].feeding = TRUE]
    /\ pc' = [pc EXCEPT ![p] = "stage"]
    /\ access' = Access(p, "none")
    /\ UNCHANGED <<setup, products, mu, file, tmp, req, res, buf, iter, held, ioFailed>>

\* case jobs <- p: a worker that waits on jobs receives the next record
BulkDispatch(p) ==
    /\ bulk[p].feeding /\ bulk[p].todo # {} /\ Waiting(bulk[p]) > 0
    /\ LET i == First(bulk[p].todo) IN
       BulkStep(p, [bulk[p] EXCEPT !.todo = @ \ {i},
                                   !.got = @ (+) SetToBag({req[p].batch[i]}),
                                   !.late = bulk[p].seen])

\* a variant of BulkSkip whose feeder returns without close(jobs)
BulkSkipNoClose(p) ==
    /\ bulk[p].feeding /\ bulk[p].todo # {} /\ bulk[p].ctx
    /\ BulkStep(p, [bulk[p] EXCEPT !.todo = {}, !.feeding = FALSE, !.seen = TRUE])

\* case <-ctx.Done(): FileStore's feeder breaks out of the select and goes
\* on with the next record; InMemoryStore's feeder returns, and its
\* deferred close(jobs) runs
BulkSkip(p) ==
    /\ bulk[p].feeding /\ bulk[p].todo # {} /\ bulk[p].ctx
    /\ BulkStep(p, IF backend = "file"
                   THEN [bulk[p] EXCEPT !.todo = @ \ {First(@)}, !.seen = TRUE]
                   ELSE [bulk[p] EXCEPT !.todo = {}, !.feeding = FALSE,
                                        !.closed = TRUE, !.seen = TRUE])

\* close(jobs) after the last record, and the end of the feeder
BulkClose(p) ==
    /\ bulk[p].feeding /\ bulk[p].todo = {}
    /\ BulkStep(p, [bulk[p] EXCEPT !.feeding = FALSE, !.closed = TRUE])

\* a worker that waits on jobs returns: jobs is closed, or (InMemoryStore)
\* case <-ctx.Done()
BulkExit(p) ==
    /\ Waiting(bulk[p]) > 0
    /\ bulk[p].closed \/ (backend = "memory" /\ bulk[p].ctx)
    /\ BulkStep(p, [bulk[p] EXCEPT !.live = @ - 1])

\* a variant of BulkCheck whose worker does not read the context
BulkCheckDeaf(p) ==
    \E r \in BagToSet(bulk[p].got) :
         LET b == [bulk[p] EXCEPT !.got = @ (-) SetToBag({r})]
             e == IF backend = "file" THEN Ok ELSE CreateChecks(FALSE, r)
         IN BulkStep(p, IF backend = "file"
                        THEN StageRecord([b EXCEPT !.fin = @ + 1], r)
                        ELSE IF e = Ok THEN [b EXCEPT !.chk = @ (+) SetToBag({r})]
                             ELSE [b EXCEPT !.errs = Append(@, Item(r.ID, e)),
                                            !.fin = @ + 1])

\* a worker handles the record it has received.  FileStore: ctx.Err(),
\* which ends the worker with the error sent on errs, and else the body of
\* the loop.  InMemoryStore: s.Create(ctx, p) up to s.mu.Lock(), an error
\* being sent on results
BulkCheck(p) ==
    \E r \in BagToSet(bulk[p].got) :
         LET b == [bulk[p] EXCEPT !.got = @ (-) SetToBag({r})]
             e == IF backend = "file" THEN CtxCheck(b.ctx)
                  ELSE CreateChecks(b.ctx, r)
         IN BulkStep(p, IF backend = "file"
                        THEN IF e = Ok THEN StageRecord([b EXCEPT !.fin = @ + 1], r)
                             ELSE [b EXCEPT !.errs = Append(@, e), !.live = @ - 1]
                        ELSE IF e = Ok THEN [b EXCEPT !.chk = @ (+) SetToBag({r})]
                             ELSE [b EXCEPT !.errs = Append(@, Item(r.ID, e)),
                                            !.fin = @ + 1])

\* a variant of BulkWait that returns what it has collected, without a
\* save, when no record was staged
BulkWaitNoSave(p) ==
    /\ pc[p] = IF backend = "file" THEN "stage" ELSE "wait"
    /\ bulk[p].live = 0
    /\ IF backend = "file" /\ DOMAIN bulk[p].toAdd = {}
       THEN /\ pc' = [pc EXCEPT ![p] = "done"]
            /\ res' = [res EXCEPT ![p] = Aggregate(bulk[p].errs)]
       ELSE /\ pc' = [pc EXCEPT ![p] = IF backend = "file" THEN "lock" ELSE "done"]
            /\ res' = res
    /\ access' = Access(p, "none")
    /\ UNCHANGED <<setup, products, mu, file, tmp, req, buf, iter, bulk, held,
                   ioFailed>>

\* wg.Wait() returns: every worker has called wg.Done().  FileStore goes on
\* to collect the errors and to the merge, InMemoryStore returns
BulkWait(p) ==
    /\ pc[p] = IF backend = "file" THEN "stage" ELSE "wait"
    /\ bulk[p].live = 0
    /\ pc' = [pc EXCEPT ![p] = IF backend = "file" THEN "lock" ELSE "done"]
    /\ access' = Access(p, "none")
    /\ UNCHANGED <<setup, products, mu, file, tmp, req, res, buf, iter, bulk, held,
                   ioFailed>>

\* InMemoryStore: s.mu.Lock() of the Create a worker runs
BulkLock(p) ==
    /\ backend = "memory" /\ bulk[p].cs = NoProduct
    /\ CanLock(mu)
    /\ \E r \in BagToSet(bulk[p].chk) :
         bulk' = [bulk EXCEPT ![p].chk = @ (-) SetToBag({r}), ![p].cs = r,
                              ![p].csRes = NoRes]
    /\ mu' = [writer |-> p, readers |-> {}]
    /\ held' = [held EXCEPT ![p] = TRUE]
    /\ access' = Access(p, "none")
    /\ UNCHANGED <<setup, products, file, tmp, pc, req, res, buf, iter, ioFailed>>

\* a variant of BulkCreate whose Create overwrites a resident record
BulkCreateOverwrite(p) ==
    /\ backend = "memory"
    /\ bulk[p].cs # NoProduct /\ bulk[p].csRes = NoRes
    /\ bulk' = [bulk EXCEPT ![p].csRes = Ok]
    /\ products' = MapPut(products, bulk[p].cs.ID, bulk[p].cs)
    /\ access' = Access(p, "write")
    /\ UNCHANGED <<setup, mu, file, tmp, pc, req, res, buf, iter, held, ioFailed>>

\* InMemoryStore: the critical section of the Create a worker runs
BulkCreate(p) ==
    /\ backend = "memory"
    /\ bulk[p].cs # NoProduct /\ bulk[p].csRes = NoRes
    /\ LET r == bulk[p].cs IN
       IF Has(products, r.ID)
       THEN /\ bulk' = [bulk EXCEPT ![p].csRes = NewDuplicateProductError(r.ID)]
            /\ products' = products
            /\ access' = Access(p, "read")
       ELSE /\ bulk' = [bulk EXCEPT ![p].csRes = Ok]
            /\ products' = MapPut(products, r.ID, r)
            /\ access' = Access(p, "write")
    /\ UNCHANGED <<setup, mu, file, tmp, pc, req, res, buf, iter, held, ioFailed>>

\* InMemoryStore: the deferred s.mu.Unlock() of the Create a worker runs,
\* and the result sent on results
BulkUnlock(p) ==
    /\ backend = "memory"
    /\ bulk[p].cs # NoProduct /\ bulk[p].csRes # NoRes
    /\ bulk' = [bulk EXCEPT
                  ![p].cs = NoProduct, ![p].csRes = NoRes, ![p].fin = @ + 1,
                  ![p].errs = IF bulk[p].csRes = Ok THEN @
                              ELSE Append(@, Item(bulk[p].cs.ID, bulk[p].csRes))]
    /\ mu' = [mu EXCEPT !.writer = IF @ = p THEN NoProc ELSE @]
    /\ access' = Access(p, "none")
    /\ UNCHANGED <<setup, products, file, tmp, pc, req, res, buf, iter, held, ioFailed>>

\* InMemoryStore: case res := <-results: the collector receives a result
BulkReceive(p) ==
    /\ pc[p] = "stage" /\ backend = "memory"
    /\ bulk[p].rcv < bulk[p].fin
    /\ BulkStep(p, [bulk[p] EXCEPT !.rcv = @ + 1])

\* a variant of BulkCollect that returns ctx.Err() without wg.Wait()
BulkCollectNoWait(p) ==
    /\ pc[p] = "stage" /\ backend = "memory"
    /\ \/ /\ bulk[p].rcv = Len(req[p].batch)
          /\ res' = [res EXCEPT ![p] = Aggregate(bulk[p].errs)]
          /\ pc' = [pc EXCEPT ![p] = "wait"]
       \/ /\ bulk[p].rcv < Len(req[p].batch) /\ bulk[p].ctx
          /\ res' = [res EXCEPT ![p] = CtxErr]
          /\ pc' = [pc EXCEPT ![p] = "done"]
    /\ access' = Access(p, "none")
    /\ UNCHANGED <<setup, products, mu, file, tmp, req, buf, iter, bulk, held,
                   ioFailed>>

\* InMemoryStore: the collector leaves its loop.  It has received a result
\* for every record of the batch and will return collected, or it finds
\* the context done before that and will return ctx.Err(); wg.Wait() stands
\* before either return
BulkCollect(p) ==
    /\ pc[p] = "stage" /\ backend = "memory"
    /\ \/ /\ bulk[p].rcv = Len(req[p].batch)
          /\ res' = [res EXCEPT ![p] = Aggregate(bulk[p].errs)]
       \/ /\ bulk[p].rcv < Len(req[p].batch) /\ bulk[p].ctx
          /\ res' = [res EXCEPT ![p] = CtxErr]
    /\ pc' = [pc EXCEPT ![p] = "wait"]
    /\ access' = Access(p, "none")
    /\ UNCHANGED <<setup, products, mu, file, tmp, req, buf, iter, bulk, held,
                   ioFailed>>

\* a variant of BulkMerge that passes over a resident ID without an error
BulkMergeSilent(p) ==
    /\ pc[p] = "merge"
    /\ \E id \in bulk[p].left :
         LET left == bulk[p].left \ {id} IN
         /\ bulk' = [bulk EXCEPT ![p].left = left]
         /\ IF Has(products, id)
            THEN products' = products /\ access' = Access(p, "read")
            ELSE /\ products' = MapPut(products, id, bulk[p].toAdd[id])
                 /\ access' = Access(p, "write")
         /\ pc' = [pc EXCEPT ![p] = IF left = {} THEN "save" ELSE "merge"]
    /\ UNCHANGED <<setup, mu, file, tmp, req, res, buf, iter, held, ioFailed>>

\* a variant of BulkMerge that stores the staged record over a resident one
BulkMergeOverwrite(p) ==
    /\ pc[p] = "merge"
    /\ \E id \in bulk[p].left :
         LET left == bulk[p].left \ {id} IN
         /\ bulk' = [bulk EXCEPT ![p].left = left]
         /\ products' = MapPut(products, id, bulk[p].toAdd[id])
         /\ access' = Access(p, "write")
         /\ pc' = [pc EXCEPT ![p] = IF left = {} THEN "save" ELSE "merge"]
    /\ UNCHANGED <<setup, mu, file, tmp, req, res, buf, iter, held, ioFailed>>

\* one turn of the merge loop, for id, p := range toAdd, with s.mu held
BulkMerge(p) ==
    /\ pc[p] = "merge"
    /\ \E id \in bulk[p].left :
         LET left == bulk[p].left \ {id} IN
         /\ IF Has(products, id)
            THEN /\ bulk' = [bulk EXCEPT ![p].left = left,
                                         ![p].errs = Append(@, NewDuplicateProductError(id))]
                 /\ products' = products
                 /\ access' = Access(p, "read")
            ELSE /\ bulk' = [bulk EXCEPT ![p].left = left]
                 /\ products' = MapPut(products, id, bulk[p].toAdd[id])
                 /\ access' = Access(p, "write")
         /\ pc' = [pc EXCEPT ![p] = IF left = {} THEN "save" ELSE "merge"]
    /\ UNCHANGED <<setup, mu, file, tmp, req, res, buf, iter, held, ioFailed>>

(***************************************************************************)
(* saveToFile, called with the write lock held.                            *)
(***************************************************************************)
\* what the call returns when its saveToFile returns e
AfterSave(p, e) ==
    IF req[p].op = "BulkImport"
    THEN Aggregate(IF e = Ok THEN bulk[p].errs ELSE Append(bulk[p].errs, e))
    ELSE e

\* a step of saveToFile failed
SaveFails(p) ==
    /\ pc' = [pc EXCEPT ![p] = "unlock"]
    /\ res' = [res EXCEPT ![p] = AfterSave(p, IOErr)]
    /\ ioFailed' = TRUE

\* a variant of saveMarshal that does not sort the list
saveMarshalUnsorted(p) ==
    /\ pc[p] = "save"
    /\ \E mkdirErr \in Faults :
         IF mkdirErr
         THEN SaveFails(p) /\ buf' = buf
         ELSE /\ \E o \in KeyOrders(products) :
                   buf' = [buf EXCEPT ![p] =
                             Marshal([i \in DOMAIN o |-> products[o[i]]])]
              /\ pc' = [pc EXCEPT ![p] = "open"]
              /\ UNCHANGED <<res, ioFailed>>
    /\ bulk' = [bulk EXCEPT ![p].saves = @ + 1]
    /\ access' = Access(p, "save")
    /\ UNCHANGED <<setup, products, mu, file, tmp, req, iter, held>>

\* os.MkdirAll, the list of the records sorted by ID, json.MarshalIndent
saveMarshal(p) ==
    /\ pc[p] = "save"
    /\ \E mkdirErr \in Faults :
         IF mkdirErr
         THEN SaveFails(p) /\ buf' = buf
         ELSE /\ \E list \in SortedLists(products) :
                   buf' = [buf EXCEPT ![p] = Marshal(list)]
              /\ pc' = [pc EXCEPT ![p] = "open"]
              /\ UNCHANGED <<res, ioFailed>>
    /\ bulk' = [bulk EXCEPT ![p].saves = @ + 1]
    /\ access' = Access(p, "save")
    /\ UNCHANGED <<setup, products, mu, file, tmp, req, iter, held>>

\* a variant of saveOpen that opens the canonical file instead of the
\* temporary one
saveOpenInPlace(p) ==
    /\ pc[p] = "open"
    /\ \E openErr \in Faults :
         IF openErr
         THEN SaveFails(p) /\ file' = file
         ELSE /\ file' = Partial
              /\ pc' = [pc EXCEPT ![p] = "write"]
              /\ UNCHANGED <<res, ioFailed>>
    /\ access' = Access(p, "save")
    /\ UNCHANGED <<setup, products, mu, tmp, req, buf, iter, bulk, held>>

\* ioutil.WriteFile(tmp, b, 0o644): the file is created or truncated
saveOpen(p) ==
    /\ pc[p] = "open"
    /\ \E openErr \in Faults :
         IF openErr
         THEN SaveFails(p) /\ tmp' = tmp
         ELSE /\ tmp' = Partial
              /\ pc' = [pc EXCEPT ![p] = "write"]
              /\ UNCHANGED <<res, ioFailed>>
    /\ access' = Access(p, "save")
    /\ UNCHANGED <<setup, products, mu, file, req, buf, iter, bulk, held>>

\* ioutil.WriteFile(tmp, b, 0o644): the bytes are written
saveWrite(p) ==
    /\ pc[p] = "write"
    /\ \E writeErr \in Faults :
         IF writeErr
         THEN SaveFails(p) /\ tmp' = tmp
         ELSE /\ tmp' = buf[p]
              /\ pc' = [pc EXCEPT ![p] = "rename"]
              /\ UNCHANGED <<res, ioFailed>>
    /\ access' = Access(p, "save")
    /\ UNCHANGED <<setup, products, mu, file, req, buf, iter, bulk, held>>

\* a variant of saveRename whose failed rename has replaced the file
saveRenameTorn(p) ==
    /\ pc[p] = "rename"
    /\ \E renameErr \in Faults :
         IF renameErr
         THEN SaveFails(p) /\ file' = tmp /\ tmp' = tmp
         ELSE /\ file' = tmp
              /\ tmp' = Absent
              /\ pc' = [pc EXCEPT ![p] = "unlock"]
              /\ res' = [res EXCEPT ![p] = AfterSave(p, Ok)]
              /\ UNCHANGED ioFailed
    /\ access' = Access(p, "save")
    /\ UNCHANGED <<setup, products, mu, req, buf, iter, bulk, held>>

\* os.Rename(tmp, s.path)
saveRename(p) ==
    /\ pc[p] = "rename"
    /\ \E renameErr \in Faults :
         IF renameErr
         THEN SaveFails(p) /\ UNCHANGED <<file, tmp>>
         ELSE /\ file' = tmp
              /\ tmp' = Absent
              /\ pc' = [pc EXCEPT ![p] = "unlock"]
              /\ res' = [res EXCEPT ![p] = AfterSave(p, Ok)]
              /\ UNCHANGED ioFailed
    /\ access' = Access(p, "save")
    /\ UNCHANGED <<setup, products, mu, req, buf, iter, bulk, held>>

(***************************************************************************)
(* Rounds.                                                                 *)
(***************************************************************************)
AllDone == phase = "ready" /\ \A p \in callers : pc[p] = "done"

\* every caller has returned and the goroutines of the calls have ended:
\* the callers issue their next calls
NextRound ==
    /\ AllDone
    /\ \A p \in callers : Ended(bulk[p])
    /\ pc' = [p \in Procs |-> "idle"]
    /\ req' = [p \in Procs |-> NoReq]
    /\ res' = [p \in Procs |-> NoRes]
    /\ buf' = [p \in Procs |-> Absent]
    /\ iter' = [p \in Procs |-> {}]
    /\ bulk' = [p \in Procs |-> NoBulk]
    /\ held' = [p \in Procs |-> FALSE]
    /\ pre' = Snapshot
    /\ unsaved' =
         LET created == {req[p].product.ID :
                            p \in {q \in callers : req[q].op = "Create" /\ res[q] = IOErr}}
             kept == {id \in unsaved :
                        /\ Has(products, id) /\ Has(pre.products, id)
                        /\ products[id] = pre.products[id]}
         IN  {id \in created \cup kept :
                /\ Has(products, id)
                /\ JSONProduct(products[id]) \notin Holding(file, id)}
    /\ access' = Access(NoProc, "none")
    /\ UNCHANGED <<backend, phase, callers, faulty, products, mu, file, tmp, ioFailed,
                   dcall>>

Step(p) ==
    \/ Create(p) \/ Get(p) \/ Update(p) \/ Delete(p) \/ List(p) \/ BulkImport(p)
    \/ Lock(p) \/ RLock(p) \/ Unlock(p) \/ RUnlock(p)
    \/ CreateExists(p) \/ CreateInsert(p)
    \/ UpdateExists(p) \/ UpdateReplace(p)
    \/ DeleteExists(p) \/ DeleteRemove(p)
    \/ GetRead(p) \/ ListVisit(p) \/ ListSort(p)
    \/ Cancel(p) \/ BulkSpawn(p) \/ BulkFeed(p)
    \/ BulkDispatch(p) \/ BulkSkip(p) \/ BulkClose(p)
    \/ BulkExit(p) \/ BulkCheck(p)
    \/ BulkLock(p) \/ BulkCreate(p) \/ BulkUnlock(p)
    \/ BulkReceive(p) \/ BulkCollect(p) \/ BulkWait(p) \/ BulkMerge(p)
    \/ saveMarshal(p) \/ saveOpen(p) \/ saveWrite(p) \/ saveRename(p)

Next ==
    \/ NewInMemoryStore \/ NewFileStore \/ loadFromFile \/ NewFileStoreReturn
    \/ \E p \in Procs : Step(p)
    \/ NextRound

\* the steps of the goroutines of the calls in progress
Run(p) ==
    \/ Lock(p) \/ Unlock(p)
    \/ BulkSpawn(p) \/ BulkFeed(p)
    \/ BulkDispatch(p) \/ BulkSkip(p) \/ BulkClose(p)
    \/ BulkExit(p) \/ BulkCheck(p)
    \/ BulkLock(p) \/ BulkCreate(p) \/ BulkUnlock(p)
    \/ BulkReceive(p) \/ BulkCollect(p) \/ BulkWait(p) \/ BulkMerge(p)
    \/ saveMarshal(p) \/ saveOpen(p) \/ saveWrite(p) \/ saveRename(p)

\* a caller whose calls are BulkImports, of batches small and large
NextPool ==
    \/ NewInMemoryStore \/ NewFileStore \/ loadFromFile \/ NewFileStoreReturn
    \/ \E p \in Procs : BulkImportMany(p) \/ Cancel(p) \/ Run(p)
    \/ NextRound

\* the calls of package domain, and of the factory with the construction
\* it starts
NextDomain ==
    \/ CallValidateProduct \/ CallIs
    \/ NewStore
    \/ NewInMemoryStore \/ NewFileStore \/ loadFromFile \/ NewFileStoreReturn

Spec == Init /\ [][Next]_vars
SpecDomain == InitDomain /\ [][NextDomain]_vars
\* one caller that imports; the scheduler lets every goroutine that can
\* take a step take one in the end
SpecPool == Init /\ [][NextPool]_vars /\ WF_vars(\E p \in Procs : Run(p))
SpecFaults == InitFaults /\ [][Next]_vars
SpecConc == InitConc /\ [][Next]_vars

(***************************************************************************)
(* Properties of the single calls, for one caller.                         *)
(***************************************************************************)
\* caller p has returned from a call of method op
Returned(p, op) == phase = "ready" /\ pc[p] = "done" /\ req[p].op = op

\* the first of Name, Price, Quantity that breaks the record invariant
FirstOffending(r) ==
    IF r.Name = "" THEN "name" ELSE IF r.Price < 0 THEN "price" ELSE "quantity"
FieldsValid(r) == r.Name # "" /\ r.Price >= 0 /\ r.Quantity >= 0

\* C1: on either backend, Create of a record with non-empty ID, non-empty
\* Name, Price >= 0 and Quantity >= 0 whose ID is not in the store succeeds,
\* and the Get of its ID that follows returns a record equal to it in all
\* five fields (the context is live and the disk works).
C1_CreateThenGet ==
    \A p \in callers :
        (/\ Returned(p, "Create") /\ ~req[p].ctxDone
         /\ ValidProduct(req[p].product)
         /\ ~Has(pre.products, req[p].product.ID))
        => /\ res[p] = Ok
           /\ GetResult(products, req[p].product.ID)
                = Result("ok", "", "", req[p].product, <<>>)

C1_Witness ==
    \E p \in callers :
        /\ Returned(p, "Create") /\ res[p] = Ok /\ backend = "file"
        /\ req[p].product.Name = BadUTF8 /\ req[p].product.Price = 0
        /\ DOMAIN pre.products # {}

\* C2 as stated: for an ID that is not in the store Get(id), Update(id, r)
\* for every record r, valid or not, and Delete(id) fail with NotFound and
\* leave the store unchanged.
C2_AnyRecordNotFound ==
    \A p \in callers :
        (/\ phase = "ready" /\ pc[p] = "done"
         /\ req[p].op \in {"Get", "Update", "Delete"}
         /\ ~req[p].ctxDone /\ ~Has(pre.products, req[p].id))
        => /\ res[p] = NewProductNotFoundError(req[p].id)
           /\ products = pre.products /\ file = pre.file

\* C2 amended: for an ID that is not in the store Get(id), Delete(id) and
\* Update(id, r) for every record r with non-empty Name, Price >= 0 and
\* Quantity >= 0 fail with NotFound and leave the store unchanged.
C2_NotFound ==
    \A p \in callers :
        (/\ phase = "ready" /\ pc[p] = "done"
         /\ req[p].op \in {"Get", "Update", "Delete"}
         /\ req[p].op = "Update" => FieldsValid(req[p].product)
         /\ ~req[p].ctxDone /\ ~Has(pre.products, req[p].id))
        => /\ res[p] = NewProductNotFoundError(req[p].id)
           /\ products = pre.products /\ file = pre.file

C2_Witness ==
    \E p \in callers :
        /\ Returned(p, "Update") /\ res[p] = NewProductNotFoundError("b")
        /\ req[p].product.ID = "a" /\ Has(products, "a") /\ ~Has(products, "b")

\* C3: Create with an ID that is in the store fails, with Duplicate when
\* the record is valid and the context live, and leaves the record with
\* that ID and every other record as they were.
C3_DuplicateCreate ==
    \A p \in callers :
        (Returned(p, "Create") /\ Has(pre.products, req[p].product.ID))
        => /\ res[p].kind \notin {"ok", "none"}
           /\ products = pre.products
           /\ (~req[p].ctxDone /\ ValidProduct(req[p].product))
                => res[p] = NewDuplicateProductError(req[p].product.ID)

C3_Witness ==
    \E p \in callers :
        /\ Returned(p, "Create") /\ res[p].kind = "Duplicate"
        /\ Has(pre.products, req[p].product.ID)
        /\ pre.products[req[p].product.ID] # req[p].product
        /\ Cardinality(DOMAIN products) = 2

\* C4: Create or Update of a record with empty Name, negative Price or
\* negative Quantity fails with Invalid and leaves the map as it was; the
\* field of the error is the first of name, price, quantity that offends
\* (for Create when the ID of the record is not empty: Create tests the ID
\* before the name, and reports the field id for an empty ID).
C4_InvalidFirstField ==
    \A p \in callers :
        (/\ phase = "ready" /\ pc[p] = "done" /\ req[p].op \in {"Create", "Update"}
         /\ ~req[p].ctxDone /\ ~FieldsValid(req[p].product))
        => /\ res[p].kind = "Invalid"
           /\ products = pre.products
           /\ res[p].field =
                IF req[p].op = "Create" /\ req[p].product.ID = "" THEN "id"
                ELSE FirstOffending(req[p].product)

C4_Witness ==
    \E p \in callers :
        /\ Returned(p, "Update") /\ res[p] = NewInvalidProductError("price")
        /\ req[p].product.Quantity < 0 /\ Has(products, req[p].id)

\* C8: a Create, Get, Update, Delete or List whose context is done when it
\* is called returns the error of the context whatever its other arguments
\* are, never holds the lock, and leaves the map and the files as they were.
C8_CancelledCall ==
    \A p \in callers :
        (/\ pc[p] # "idle" /\ req[p].ctxDone
         /\ req[p].op \in {"Create", "Get", "Update", "Delete", "List"})
        => /\ pc[p] = "done" /\ res[p] = CtxErr
           /\ ~held[p] /\ mu = Unlocked
           /\ Snapshot = pre

C8_Witness ==
    \E p \in callers :
        /\ Returned(p, "Delete") /\ req[p].ctxDone /\ res[p] = CtxErr
        /\ Has(products, req[p].id) /\ backend = "file"

(***************************************************************************)
(* Persistence.                                                            *)
(***************************************************************************)
\* C9 as stated: when a Create, Update, Delete or BulkImport of the file
\* store has succeeded and every save has succeeded, a new store built
\* over the same path holds a map equal to the map of the live store.
C9_RoundTrip ==
    \A p \in callers :
        (/\ phase = "ready" /\ backend = "file" /\ pc[p] = "done"
         /\ req[p].op \in WriteOps /\ res[p] = Ok /\ ~ioFailed)
        => LoadFromFile(file, FALSE) = [err |-> Ok, products |-> products]

\* C10: saveToFile never writes the canonical file in place: the canonical
\* file is never a partial write, and it changes only by the rename of the
\* temporary file, which then holds the whole JSON text of the map sorted
\* by ID; this on a disk whose every operation can fail.
C10_AtomicSave ==
    /\ [](file.kind # "partial")
    /\ [][file' # file =>
            \E p \in callers :
                /\ pc[p] = "rename" /\ mu.writer = p
                /\ file' = tmp /\ tmp = buf[p]
                /\ buf[p] \in {Marshal(l) : l \in SortedLists(products)}]_vars

C10_Witness ==
    \E p \in callers :
        /\ pc[p] = "done" /\ res[p] = IOErr /\ faulty
        /\ tmp = Partial /\ file.kind = "json"
        /\ file = pre.file /\ products # pre.products

\* no call that changes the map is between its call and its return
Quiescent == \A q \in callers : req[q].op \in WriteOps => pc[q] \in {"idle", "done"}
\* the canonical file is the JSON text of the records of the map in
\* ascending order of ID
Saved == file \in {Marshal(l) : l \in SortedLists(products)}

\* the canonical file was the JSON text of the map when the round began
PreSaved == pre.file \in {Marshal(l) : l \in SortedLists(pre.products)}

\* C11: on the file store, when a Create, Update or Delete has returned
\* success, and in the states that follow, the canonical file is the JSON
\* text of exactly the records of the map, in ascending order of ID, in
\* every state where no call that changes the map is in progress and no
\* save has failed.
C11_FileMirrorsMap ==
    (/\ backend = "file" /\ phase = "ready" /\ Quiescent /\ ~ioFailed
     /\ \/ PreSaved
        \/ \E p \in callers : /\ pc[p] = "done" /\ res[p] = Ok
                               /\ req[p].op \in {"Create", "Update", "Delete"})
    => Saved

C11_Witness ==
    \E p \in callers :
        /\ Returned(p, "Update") /\ res[p] = Ok /\ backend = "file" /\ faulty
        /\ ~ioFailed /\ Saved /\ Len(file.list) = 2
        /\ req[p].product.Name = Replaced /\ products # pre.products

\* the map that the call r leaves when its test of the map passes
Mutated(m, r) ==
    CASE r.op = "Create" -> MapPut(m, r.product.ID, r.product)
      [] r.op = "Update" -> MapPut(m, r.id, [r.product EXCEPT !.ID = r.id])
      [] r.op = "Delete" -> MapDelete(m, r.id)
      [] OTHER -> m

\* C12: when the save of a Create, Update or Delete of the file store
\* fails, the call returns the error of the save, the map keeps the change
\* (Get returns the record created or put by Update, and NotFound for the
\* record deleted), and the canonical file is as it was before the call.
C12_FailedSaveKeepsChange ==
    /\ [][\A p \in callers :
            (/\ req[p].op \in {"Create", "Update", "Delete"}
             /\ ~ioFailed /\ ioFailed' /\ pc[p] # pc'[p])
            => pc'[p] = "unlock" /\ res'[p] = IOErr]_vars
    /\ [](\A p \in callers :
            (/\ pc[p] \in {"unlock", "done"} /\ res[p] = IOErr
             /\ req[p].op \in {"Create", "Update", "Delete"})
            => /\ products = Mutated(pre.products, req[p])
               /\ GetResult(products, req[p].id) =
                    IF req[p].op = "Delete" THEN NewProductNotFoundError(req[p].id)
                    ELSE Result("ok", "", "", [req[p].product EXCEPT !.ID = req[p].id],
                                <<>>)
               /\ file = pre.file)

C12_Witness ==
    \E p \in callers :
        /\ Returned(p, "Delete") /\ res[p] = IOErr
        /\ Has(pre.products, req[p].id) /\ ~Has(products, req[p].id)
        /\ file = pre.file /\ file.kind = "json"
        /\ Has(LoadFromFile(file, FALSE).products, req[p].id)

\* C13: NewFileStore over a path with no file or with a file of zero bytes
\* succeeds with an empty map; over a file that holds a JSON array of
\* records it succeeds with a map that holds each record under its ID;
\* over malformed content it fails and returns no store.
C13_Construction ==
    backend = "file" =>
        /\ phase \in {"loaded", "ready"} => file.kind # "malformed"
        /\ phase \in {"loadfail", "failed"} =>
              file.kind = "malformed" /\ \A p \in Procs : pc[p] = "idle"
        /\ phase = "loaded" =>
              /\ file.kind \in {"absent", "empty"} => products = EmptyMap
              /\ file.kind = "json" =>
                    /\ DOMAIN products = {file.list[i].ID : i \in DOMAIN file.list}
                    /\ \A id \in DOMAIN products : products[id] \in Holding(file, id)

C13_Witness ==
    /\ backend = "file" /\ phase = "loaded" /\ file.kind = "json"
    /\ Cardinality(DOMAIN products) = 2 /\ ~faulty

(***************************************************************************)
(* Concurrent callers.                                                     *)
(***************************************************************************)
\* C5: Creates of valid records with pairwise distinct IDs, issued
\* concurrently on an empty store, all succeed, and the store then holds
\* exactly those records.
C5_ConcurrentCreates ==
    (/\ AllDone /\ pre.products = EmptyMap
     /\ \A p \in callers : /\ req[p].op = "Create" /\ ~req[p].ctxDone
                           /\ ValidProduct(req[p].product)
     /\ \A p, q \in callers : p # q => req[p].product.ID # req[q].product.ID)
    => /\ \A p \in callers : res[p] = Ok
       /\ DOMAIN products = {req[p].product.ID : p \in callers}
       /\ \A p \in callers : products[req[p].product.ID] = req[p].product

C5_Witness ==
    /\ AllDone /\ pre.products = EmptyMap /\ Cardinality(callers) > 1
    /\ \A p \in callers : req[p].op = "Create" /\ res[p] = Ok
    /\ Cardinality(DOMAIN products) = Cardinality(callers)
    /\ backend = "file"

\* the call r run alone on the map m: the results it can return, each with
\* the map it leaves
Alone(m, r) ==
    CASE r.op = "Create" ->
           LET e == CreateChecks(r.ctxDone, r.product) IN
           IF e # Ok THEN {[products |-> m, res |-> e]}
           ELSE IF Has(m, r.product.ID)
           THEN {[products |-> m, res |-> NewDuplicateProductError(r.product.ID)]}
           ELSE {[products |-> MapPut(m, r.product.ID, r.product), res |-> Ok]}
      [] r.op = "Update" ->
           LET e == UpdateChecks(r.ctxDone, r.product) IN
           IF e # Ok THEN {[products |-> m, res |-> e]}
           ELSE IF ~Has(m, r.id)
           THEN {[products |-> m, res |-> NewProductNotFoundError(r.id)]}
           ELSE {[products |-> MapPut(m, r.id, [r.product EXCEPT !.ID = r.id]),
                  res |-> Ok]}
      [] r.op = "Delete" ->
           IF CtxCheck(r.ctxDone) # Ok THEN {[products |-> m, res |-> CtxErr]}
           ELSE IF ~Has(m, r.id)
           THEN {[products |-> m, res |-> NewProductNotFoundError(r.id)]}
           ELSE {[products |-> MapDelete(m, r.id), res |-> Ok]}
      [] r.op = "Get" ->
           IF CtxCheck(r.ctxDone) # Ok THEN {[products |-> m, res |-> CtxErr]}
           ELSE {[products |-> m, res |-> GetResult(m, r.id)]}
      [] r.op = "List" ->
           IF CtxCheck(r.ctxDone) # Ok THEN {[products |-> m, res |-> CtxErr]}
           ELSE {[products |-> m, res |-> Result("ok", "", "", NoProduct, out)] :
                    out \in ListResults(m, r.filter)}
      [] OTHER -> {}

\* the calls of the round, run alone one after the other in the order
\* given, from the map m, return what they returned and leave the map of
\* the store
RECURSIVE Replays(_, _)
Replays(m, order) ==
    IF order = <<>> THEN m = products
    ELSE \E a \in Alone(m, req[Head(order)]) :
            /\ a.res = res[Head(order)]
            /\ Replays(a.products, Tail(order))

\* the orders in which the calls of the round can be put
Orders ==
    {o \in [1..Cardinality(callers) -> callers] :
        \A i, j \in DOMAIN o : i # j => o[i] # o[j]}

\* C6: concurrent Create, Update and Delete (and Get and List) are
\* linearizable: when the calls of a round have returned, their results and
\* the map are those of the calls run one after the other in some order;
\* and of concurrent Creates of valid records with the same ID, not in the
\* store, exactly one succeeds and every other one fails with Duplicate.
C6_Linearizable ==
    /\ (/\ AllDone
        /\ \A p \in callers :
              req[p].op \in {"Create", "Update", "Delete", "Get", "List"})
       => \E o \in Orders : Replays(pre.products, o)
    /\ (/\ AllDone
        /\ \A p \in callers : /\ req[p].op = "Create" /\ ~req[p].ctxDone
                              /\ ValidProduct(req[p].product)
                              /\ ~Has(pre.products, req[p].product.ID)
        /\ \A p, q \in callers : req[p].product.ID = req[q].product.ID)
       => /\ Cardinality({p \in callers : res[p] = Ok}) = 1
          /\ \A p \in callers :
                res[p] \in {Ok, NewDuplicateProductError(req[p].product.ID)}

C6_Witness ==
    /\ AllDone /\ Cardinality(callers) > 1
    /\ \A p \in callers : /\ req[p].op = "Create"
                          /\ req[p].product.ID = "a"
                          /\ ~Has(pre.products, "a")
    /\ \E p, q \in callers : /\ res[p] = Ok /\ res[q].kind = "Duplicate"
                             /\ req[p].product # req[q].product

\* the callers, and the constructor, that are between Lock and Unlock
Writing ==
    {p \in Procs : pc[p] \in {"check", "mutate", "merge", "save", "open",
                              "write", "rename", "unlock"}}
      \cup {p \in Procs : bulk[p].cs # NoProduct}
      \cup (IF phase \in {"load", "loaded", "loadfail"} THEN {Ctor} ELSE {})
\* the callers that are between RLock and RUnlock
Reading == {p \in Procs : pc[p] \in {"read", "runlock"}}

\* C7: at most one writer is in its critical section, and no reader is in
\* its critical section with a writer; the map is read with the read or
\* the write lock held, and it is changed and the file is saved with the
\* write lock held, BulkImport's merge and the load at construction
\* included.
C7_LockDiscipline ==
    /\ Cardinality(Writing) <= 1
    /\ Writing # {} => Reading = {}
    /\ \A p \in Writing : mu.writer = p
    /\ Reading \subseteq mu.readers
    /\ access.kind = "read" => access.proc \in Writing \cup Reading
    /\ access.kind \in {"write", "save"} => access.proc \in Writing

C7_Witness ==
    \E p, q \in callers :
        /\ p # q /\ pc[p] = "rename" /\ access = Access(p, "save")
        /\ req[p].op = "BulkImport"
        /\ pc[q] = "lock" /\ req[q].op \in ReadOps

(***************************************************************************)
(* BulkImport, for one caller.                                             *)
(***************************************************************************)
\* the errors an error returned by BulkImport is made of
ErrorsOf(e) ==
    IF e = Ok THEN <<>> ELSE IF e.kind = "agg" THEN e.list ELSE <<e>>

\* the error e is the error of the context, or one of the errors it is
\* made of is
Contains(e, k) == \E n \in DOMAIN ErrorsOf(e) : Is(ErrorsOf(e)[n], k)

\* caller p has returned from a BulkImport whose context was live from the
\* call to the return
Imported(p) ==
    Returned(p, "BulkImport") /\ ~req[p].ctxDone /\ ~bulk[p].ctx

\* the IDs the round has added to the map
Added == DOMAIN products \ DOMAIN pre.products

\* C14: BulkImport is not atomic: after a BulkImport whose context stays
\* live (and whose save succeeds), on either backend, every record of the
\* batch that is valid and whose ID is not in the store before the call
\* and is not that of another record of the batch is in the store as the
\* batch gives it, whether other records of the batch fail or not.
C14_NotAtomic ==
    \A p \in callers :
        Imported(p) =>
            \A i \in DOMAIN req[p].batch :
                LET r == req[p].batch[i] IN
                (/\ ValidProduct(r) /\ ~Has(pre.products, r.ID)
                 /\ \A j \in DOMAIN req[p].batch : j # i => req[p].batch[j].ID # r.ID)
                => Has(products, r.ID) /\ products[r.ID] = r

C14_Witness ==
    \E p \in callers :
        /\ Imported(p) /\ Is(res[p], "Invalid")
        /\ req[p].batch = <<Nameless("a"), Cafe("b")>>
        /\ Has(products, "b") /\ products["b"] = Cafe("b") /\ ~Has(pre.products, "b")

\* C15 as stated: on either backend and whenever the context is cancelled,
\* if BulkImport returns nil then every record of the batch is in the store
\* after the call.
C15_NilMeansAllPresent ==
    \A p \in callers :
        (Returned(p, "BulkImport") /\ res[p] = Ok)
        => \A i \in DOMAIN req[p].batch :
              LET r == req[p].batch[i] IN Has(products, r.ID) /\ products[r.ID] = r

\* the errors of the error returned stand one for one for the records of
\* the batch that are not in the round's additions to the map: an Invalid
\* for each invalid record, and for each ID a Duplicate for each valid
\* record of that ID but the one added
PerItem(p) ==
    LET batch == req[p].batch
        es == ErrorsOf(res[p])
        invalid == {i \in DOMAIN batch : ~ValidProduct(batch[i])}
        dups(id) == {n \in DOMAIN es :
                       Is(es[n], "Duplicate") /\
                       (IF es[n].kind = "item" THEN es[n].list[1] ELSE es[n]).id = id}
    IN /\ Len(es) = Len(batch) - Cardinality(Added)
       /\ Cardinality({n \in DOMAIN es : Is(es[n], "Invalid")}) = Cardinality(invalid)
       /\ \A id \in IDs :
            Cardinality(dups(id)) =
               Cardinality({i \in DOMAIN batch \ invalid : batch[i].ID = id})
                 - (IF id \in Added THEN 1 ELSE 0)

\* C16: for a BulkImport whose context stays live, on either backend, the
\* error returned holds exactly one error for each record of the batch
\* that was not committed (invalid, duplicate in the batch, duplicate of a
\* record of the store) and none for a committed one; the call returns nil
\* exactly when no record failed.
C16_OneErrorPerFailure ==
    \A p \in callers :
        Imported(p) =>
            /\ PerItem(p)
            /\ res[p] = Ok <=> Cardinality(Added) = Len(req[p].batch)
            /\ \A id \in Added :
                  \E i \in DOMAIN req[p].batch : products[id] = req[p].batch[i]
            /\ \A id \in DOMAIN pre.products :
                  Has(products, id) /\ products[id] = pre.products[id]

C16_Witness ==
    \E p \in callers :
        /\ Imported(p) /\ res[p].kind = "agg" /\ Len(res[p].list) = 2
        /\ req[p].batch = <<Widget("a"), Cafe("a")>> /\ Has(pre.products, "a")
        /\ backend = "file"

\* C17: BulkImport, on either backend, of a batch that holds two valid
\* records of one ID that is not in the store returns an error whatever the
\* order in which the workers run, and the store then holds one record of
\* that ID, which is one of the two (the context stays live).
C17_DuplicatePair ==
    \A p \in callers :
        (/\ Imported(p) /\ Len(req[p].batch) = 2
         /\ req[p].batch[1].ID = req[p].batch[2].ID
         /\ ValidProduct(req[p].batch[1]) /\ ValidProduct(req[p].batch[2])
         /\ ~Has(pre.products, req[p].batch[1].ID))
        => /\ res[p] # Ok /\ Is(res[p], "Duplicate")
           /\ Has(products, req[p].batch[1].ID)
           /\ products[req[p].batch[1].ID] \in {req[p].batch[1], req[p].batch[2]}
           /\ Cardinality(Added) = 1

C17_Witness ==
    \E p \in callers :
        /\ Imported(p) /\ req[p].batch = <<Widget("a"), Cafe("a")>>
        /\ ~Has(pre.products, "a") /\ Has(products, "a")
        /\ products["a"] = Cafe("a") /\ Is(res[p], "Duplicate")

\* C18: BulkImport called with a context that is done returns the error of
\* the context on either backend; it starts no worker, takes no lock,
\* inserts no record and saves nothing: map and files are as before.
C18_CancelledImport ==
    \A p \in callers :
        (pc[p] # "idle" /\ req[p].op = "BulkImport" /\ req[p].ctxDone)
        => /\ pc[p] = "done" /\ res[p] = CtxErr
           /\ bulk[p] = NoBulk /\ ~held[p] /\ mu = Unlocked
           /\ Snapshot = pre

C18_Witness ==
    \E p \in callers :
        /\ Returned(p, "BulkImport") /\ req[p].ctxDone /\ res[p] = CtxErr
        /\ req[p].batch = <<Nameless("a"), Cafe("b")>> /\ ~Has(products, "b")

\* C19 as stated: if the context is cancelled during a BulkImport before
\* every record of the batch has been sent to a worker and handled, the
\* call returns, on either backend, an error that is the error of the
\* context or holds it.
C19_CancelReported ==
    \A p \in callers :
        (/\ Returned(p, "BulkImport") /\ bulk[p].ctx
         /\ bulk[p].fin # Len(req[p].batch))
        => res[p] # Ok /\ Contains(res[p], "ctx")

\* C20 as stated: when a BulkImport has met the cancellation and has also
\* collected an Invalid or a Duplicate error, the error it returns is, by
\* errors.Is along its chain, the error of the context, on both backends.
C20_CancelHasPriority ==
    \A p \in callers :
        (/\ Returned(p, "BulkImport")
         /\ \E n \in DOMAIN bulk[p].errs : Is(bulk[p].errs[n], "ctx")
         /\ \E n \in DOMAIN bulk[p].errs :
               Is(bulk[p].errs[n], "Invalid") \/ Is(bulk[p].errs[n], "Duplicate"))
        => Is(res[p], "ctx")

\* C21 as stated: the error BulkImport returns for a batch of which one
\* record fails as Invalid and another as Duplicate is matched by the check
\* of the Invalid kind and by the check of the Duplicate kind, in whatever
\* order the errors were collected (the context stays live).
C21_KindsRecoverable ==
    \A p \in callers :
        (/\ Imported(p)
         /\ \E n \in DOMAIN bulk[p].errs : Is(bulk[p].errs[n], "Invalid")
         /\ \E n \in DOMAIN bulk[p].errs : Is(bulk[p].errs[n], "Duplicate"))
        => Is(res[p], "Invalid") /\ Is(res[p], "Duplicate")

\* C27 as stated: of two valid records of one ID in a batch, the ID not
\* being in the store, the one the store keeps is the first of the batch,
\* under every interleaving of the workers (the context stays live).
C27_FirstWins ==
    \A p \in callers :
        (/\ Imported(p) /\ Len(req[p].batch) = 2
         /\ req[p].batch[1].ID = req[p].batch[2].ID
         /\ ValidProduct(req[p].batch[1]) /\ ValidProduct(req[p].batch[2])
         /\ ~Has(pre.products, req[p].batch[1].ID))
        => /\ Has(products, req[p].batch[1].ID)
           /\ products[req[p].batch[1].ID] = req[p].batch[1]

(***************************************************************************)
(* The goroutines of BulkImport, for one caller that imports.              *)
(***************************************************************************)
\* C22: during a BulkImport, on either backend, the workers of the call
\* that exist at one time are never more than 10 and never more than the
\* records of the batch, whatever the size of the batch; an empty batch
\* starts no worker and returns nil.
C22_WorkerCap ==
    \A p \in callers :
        /\ bulk[p].live <= maxWorkers /\ bulk[p].live <= Len(req[p].batch)
        /\ bulk[p].spawned <= maxWorkers /\ bulk[p].spawned <= Len(req[p].batch)
        /\ (pc[p] # "idle" /\ req[p].op = "BulkImport" /\ req[p].batch = <<>>
            /\ ~req[p].ctxDone)
           => pc[p] = "done" /\ res[p] = Ok /\ bulk[p].spawned = 0

C22_Witness ==
    \E p \in callers :
        /\ pc[p] = "stage" /\ Len(req[p].batch) > maxWorkers
        /\ bulk[p].live = maxWorkers /\ Waiting(bulk[p]) = 0
        /\ bulk[p].todo # {} /\ bulk[p].feeding

\* C23: when BulkImport returns, on either backend, after it has handled
\* the whole batch or after a cancellation, every worker the call started
\* has returned: no worker holds a record, none holds s.mu, and the map
\* does not change until the next call.
C23_PoolTornDown ==
    /\ [](\A p \in callers :
            (pc[p] = "done" /\ req[p].op = "BulkImport")
            => /\ bulk[p].live = 0 /\ Busy(bulk[p]) = 0
               /\ mu = Unlocked)
    /\ [][(\A p \in callers : pc[p] = "done") => products' = products]_vars

C23_Witness ==
    \E p \in callers :
        /\ Returned(p, "BulkImport") /\ backend = "memory"
        /\ res[p] = CtxErr /\ ~req[p].ctxDone
        /\ bulk[p].spawned = 2 /\ bulk[p].live = 0 /\ bulk[p].fin = 1
        /\ Cardinality(Added) = 1

\* C24: every BulkImport returns, and its feeder and its workers end: for
\* every batch, every number of workers and every moment at which the
\* context is cancelled, when every goroutine that can take a step takes
\* one in the end.
C24_Terminates ==
    \A p \in Procs :
        (pc[p] = "spawn") ~> (pc[p] = "done" /\ Ended(bulk[p]))

C24_Witness ==
    \E p \in callers :
        /\ Returned(p, "BulkImport") /\ Ended(bulk[p]) /\ backend = "file"
        /\ Len(req[p].batch) > maxWorkers /\ bulk[p].spawned = maxWorkers
        /\ bulk[p].ctx /\ bulk[p].closed
        /\ bulk[p].fin > 0 /\ bulk[p].fin < Len(req[p].batch)

\* C25: a BulkImport of the file store on a batch that is not empty, with
\* a context that is live at the call, calls saveToFile exactly once,
\* whatever the number of records and of records that fail; the save comes
\* after the merge of every staged record, with s.mu held by the call and
\* every worker gone.
C25_OneSave ==
    \A p \in callers :
        (backend = "file" /\ req[p].op = "BulkImport") =>
            /\ bulk[p].saves <= 1
            /\ pc[p] \in {"spawn", "stage", "lock", "merge", "save"} => bulk[p].saves = 0
            /\ pc[p] \in {"open", "write", "rename", "unlock"} => bulk[p].saves = 1
            /\ pc[p] = "done" =>
                  bulk[p].saves = IF req[p].ctxDone \/ req[p].batch = <<>> THEN 0 ELSE 1
            /\ (bulk[p].saves = 1 /\ pc[p] # "done") => mu.writer = p
            /\ bulk[p].saves = 1 =>
                  /\ bulk[p].live = 0 /\ bulk[p].left = {}
                  /\ DOMAIN bulk[p].toAdd \subseteq DOMAIN products

C25_Witness ==
    \E p \in callers :
        /\ Returned(p, "BulkImport") /\ backend = "file" /\ bulk[p].saves = 1
        /\ Len(req[p].batch) > maxWorkers /\ Len(bulk[p].errs) = Len(req[p].batch)
        /\ ~bulk[p].ctx /\ file = Marshal(<<>>)

(***************************************************************************)
(* BulkImport among concurrent callers.                                    *)
(***************************************************************************)
\* the errors a BulkImport has collected, that of the Create that still
\* holds s.mu included
Collected(b) ==
    IF b.csRes \in {NoRes, Ok} THEN b.errs ELSE Append(b.errs, Item(b.cs.ID, b.csRes))

\* C26: BulkImport never replaces a record of the store, on either
\* backend and whatever the other callers do: no step of a BulkImport
\* changes or removes a record that is in the map; the step that merges
\* (FileStore) or creates (InMemoryStore) a record of the batch whose ID is
\* in the map at that moment leaves the map as it is and adds a Duplicate
\* error for the ID to the errors collected; and a call whose context
\* stays live returns the errors it has collected.
C26_NeverReplaces ==
    /\ [][\A p \in callers :
            (req[p].op = "BulkImport" /\ access'.proc = p)
            => /\ \A id \in DOMAIN products :
                     Has(products', id) /\ products'[id] = products[id]
               /\ \A id \in DOMAIN products :
                     (\/ /\ pc[p] = "merge"
                         /\ id \in bulk[p].left /\ id \notin bulk'[p].left
                      \/ /\ bulk[p].cs # NoProduct /\ bulk[p].cs.ID = id
                         /\ bulk[p].csRes = NoRes /\ bulk'[p].csRes # NoRes)
                     => /\ products' = products
                        /\ Collected(bulk'[p]) =
                             Append(Collected(bulk[p]),
                                    IF backend = "file" THEN NewDuplicateProductError(id)
                                    ELSE Item(id, NewDuplicateProductError(id)))]_vars
    /\ [](\A p \in callers : Imported(p) => ErrorsOf(res[p]) = bulk[p].errs)

C26_Witness ==
    \E p, q \in callers :
        /\ p # q /\ Imported(p) /\ Is(res[p], "Duplicate")
        /\ Returned(q, "Create") /\ res[q] = Ok /\ req[q].product = Widget("b")
        /\ ~Has(pre.products, "b") /\ Has(products, "b")
        /\ products["b"] = Widget("b") /\ products["b"] \notin Values(bulk[p].toAdd)
        /\ req[p].batch[1].ID = "b"

(***************************************************************************)
(* List.                                                                   *)
(***************************************************************************)
\* the record r has the category of the filter when the filter names one,
\* a price not under MinPrice when that is set, and a price not over
\* MaxPrice when that is set
Matches(f, r) ==
    /\ f.Category = "" \/ r.Category = f.Category
    /\ f.MinPrice.set => r.Price >= f.MinPrice.v
    /\ f.MaxPrice.set => r.Price <= f.MaxPrice.v

\* C28: a List with a live context returns the records of the store that
\* satisfy the filter, each once and no other record: those of the
\* category of the filter when it names one, with Price >= MinPrice and
\* Price <= MaxPrice when these are set, and every record for the empty
\* filter.  List leaves the map and the files as they were.
C28_ListFilters ==
    \A p \in callers :
        (pc[p] # "idle" /\ req[p].op = "List") =>
            /\ Snapshot = pre
            /\ (pc[p] = "done" /\ ~req[p].ctxDone) =>
                  /\ res[p].kind = "ok"
                  /\ \A i, j \in DOMAIN res[p].list :
                        i # j => res[p].list[i].ID # res[p].list[j].ID
                  /\ {res[p].list[i] : i \in DOMAIN res[p].list}
                       = {r \in Values(products) : Matches(req[p].filter, r)}
                  /\ req[p].filter = NoFilter =>
                        Len(res[p].list) = Cardinality(DOMAIN products)

C28_Witness ==
    \E p \in callers :
        /\ Returned(p, "List") /\ req[p].filter.MinPrice = Ptr(5)
        /\ Len(res[p].list) = 1 /\ res[p].list[1].Price = 5
        /\ Cardinality(DOMAIN products) = 2
        /\ \E id \in DOMAIN products : products[id].Price = 0

\* the field List sorts by
SortKey(f, r) ==
    IF f.SortBy = "name" THEN NameRank(r.Name)
    ELSE IF f.SortBy = "price" THEN r.Price ELSE r.Quantity

\* C29: when SortBy is name, price or quantity the slice List returns is
\* in the order of that field, never rising when Order is "desc" and never
\* falling for any other Order, unset included; the records returned are
\* those that satisfy the filter, as without a sort.
C29_ListSorted ==
    \A p \in callers :
        (/\ Returned(p, "List") /\ ~req[p].ctxDone
         /\ req[p].filter.SortBy \in {"name", "price", "quantity"})
        => /\ \A i, j \in DOMAIN res[p].list :
                 i < j =>
                   IF req[p].filter.Order = "desc"
                   THEN SortKey(req[p].filter, res[p].list[i])
                          >= SortKey(req[p].filter, res[p].list[j])
                   ELSE SortKey(req[p].filter, res[p].list[i])
                          <= SortKey(req[p].filter, res[p].list[j])
           /\ Len(res[p].list) =
                 Cardinality({r \in Values(products) : Matches(req[p].filter, r)})
           /\ \A i \in DOMAIN res[p].list :
                 res[p].list[i] \in Values(products) /\ Matches(req[p].filter, res[p].list[i])

C29_Witness ==
    \E p \in callers :
        /\ Returned(p, "List") /\ req[p].filter.SortBy = "price"
        /\ req[p].filter.Order = "desc" /\ Len(res[p].list) = 2
        /\ res[p].list[1].Price > res[p].list[2].Price
        /\ IDRank(res[p].list[1].ID) > IDRank(res[p].list[2].ID)

\* C30: a List that runs among concurrent Create, Update, Delete and
\* BulkImport calls returns the content of the map at one instant between
\* its call and its return: when its loop and its sort are over and it
\* still holds the read lock, the slice it will return holds each record
\* of the map of that moment that satisfies the filter, once, and nothing
\* else; and while the loop runs every record taken is in the map as taken.
C30_Snapshot ==
    \A p \in callers :
        req[p].op = "List" =>
            /\ pc[p] = "read" =>
                  /\ iter[p] \subseteq DOMAIN products
                  /\ \A i \in DOMAIN res[p].list :
                        /\ res[p].list[i].ID \in iter[p]
                        /\ products[res[p].list[i].ID] = res[p].list[i]
            /\ pc[p] = "runlock" =>
                  /\ {res[p].list[i] : i \in DOMAIN res[p].list}
                       = {r \in Values(products) : Matches(req[p].filter, r)}
                  /\ Len(res[p].list) =
                       Cardinality({r \in Values(products) : Matches(req[p].filter, r)})

C30_Witness ==
    \E p, q \in callers :
        /\ p # q /\ req[p].op = "List" /\ pc[p] = "runlock"
        /\ Len(res[p].list) = 2 /\ products # pre.products
        /\ req[q].op = "BulkImport" /\ pc[q] = "stage"
        /\ \E i \in DOMAIN res[p].list : res[p].list[i] = req[q].batch[1]

(***************************************************************************)
(* The keys of the map and the record invariant.                           *)
(***************************************************************************)
\* C31: an Update(id, record) that succeeds stores the record under the
\* key id with its ID field set to id, whatever ID the caller's record
\* carries, and leaves every other key and its record as they were; and in
\* every reachable state the ID of each record of the map is its key.
C31_UpdateKeepsKey ==
    /\ \A id \in DOMAIN products : products[id].ID = id
    /\ \A p \in callers :
          (Returned(p, "Update") /\ res[p] = Ok) =>
              /\ DOMAIN products = DOMAIN pre.products
              /\ products[req[p].id] = [req[p].product EXCEPT !.ID = req[p].id]
              /\ \A k \in DOMAIN products \ {req[p].id} : products[k] = pre.products[k]

C31_Witness ==
    \E p \in callers :
        /\ Returned(p, "Update") /\ res[p] = Ok
        /\ req[p].product.ID # req[p].id /\ req[p].product.ID # ""
        /\ Cardinality(DOMAIN products) = 2
        /\ products[req[p].id].Name = req[p].product.Name
        /\ products # pre.products

(***************************************************************************)
(* Package domain and the factory.                                         *)
(***************************************************************************)
\* C32: ValidateProduct returns Invalid naming "name" when Name is empty,
\* whatever Price and Quantity are, Invalid naming "price" when Name is not
\* empty and Price < 0, Invalid naming "quantity" when only Quantity < 0,
\* and nil for every other record; a call of it changes no store (map,
\* lock, file or temporary file).
C32_ValidateProduct ==
    /\ [](dcall.fn = "ValidateProduct" =>
            LET r == dcall.arg
                e == dcall.out
            IN  /\ r.Name = "" => e = NewInvalidProductError("name")
                /\ (r.Name # "" /\ r.Price < 0) => e = NewInvalidProductError("price")
                /\ (r.Name # "" /\ r.Price >= 0 /\ r.Quantity < 0)
                      => e = NewInvalidProductError("quantity")
                /\ (r.Name # "" /\ r.Price >= 0 /\ r.Quantity >= 0) => e = Ok)
    /\ [][(dcall' # dcall /\ dcall'.fn = "ValidateProduct")
            => UNCHANGED <<backend, phase, products, mu, file, tmp>>]_vars

C32_Witness ==
    /\ dcall.fn = "ValidateProduct"
    /\ dcall.arg.Name = "" /\ dcall.arg.Price < 0 /\ dcall.arg.Quantity < 0
    /\ dcall.out = NewInvalidProductError("name")
    /\ phase = "ready" /\ Cardinality(DOMAIN products) = 2

\* the error at the end of the chain of errors that e wraps with %w
RECURSIVE Cause(_)
Cause(e) ==
    IF e.kind = "item" THEN Cause(e.list[1])
    ELSE IF e.kind = "agg" THEN Cause(e.list[Len(e.list)])
    ELSE e

\* C33: for an error of kind NotFound, Invalid or Duplicate, with any ID or
\* field in it, alone or wrapped by another error, the helper of its kind
\* among IsProductNotFoundError, IsInvalidProductError and
\* IsDuplicateProductError returns true and the other two return false.
C33_KindsToldApart ==
    dcall.fn = "Is" =>
        LET k == Cause(dcall.arg).kind IN
        k \in {"NotFound", "Invalid", "Duplicate"} =>
            dcall.out = [NotFound |-> k = "NotFound", Invalid |-> k = "Invalid",
                         Duplicate |-> k = "Duplicate"]

C33_Witness ==
    /\ dcall.fn = "Is" /\ dcall.arg.kind = "agg"
    /\ dcall.arg.list[1].kind = "item" /\ Cause(dcall.arg.list[1]).kind = "Invalid"
    /\ dcall.arg.list[2].kind = "item" /\ Cause(dcall.arg).kind = "Duplicate"
    /\ dcall.out.Duplicate /\ ~dcall.out.Invalid /\ ~dcall.out.NotFound

\* C34: in every reachable state of either backend every record of the map
\* has a non-empty ID, a non-empty Name, Price >= 0 and Quantity >= 0,
\* whether it came by Create, Update, BulkImport or the load of the file
\* at construction.
C34_RecordInvariant == \A id \in DOMAIN products : ValidProduct(products[id])

\* NewStore has returned nil and an error: no constructor was called
NoStore == backend = "none" /\ phase = "failed" /\ dcall.out = ConfigErr
\* NewStore has called the constructor of the backend b, and returns what
\* it returns: the store, or for a file that cannot be loaded its error
StoreOf(b) ==
    /\ backend = b /\ dcall.out = NoRes
    /\ phase \in {"failed", "loadfail"} => (b = "file" /\ file.kind = "malformed")

\* C35 as stated: NewStore returns an in-memory store for kind "memory",
\* whatever the path, a file-backed store for kind "file" with a non-empty
\* path, an error and no store for kind "file" with an empty path, and an
\* error and no store for every other kind.
C35_OnlyMemoryAndFile ==
    dcall.fn = "NewStore" =>
        LET kind == dcall.arg.kind
            path == dcall.arg.path
        IN  /\ kind = "memory" => StoreOf("memory")
            /\ (kind = "file" /\ path # "") => StoreOf("file")
            /\ (kind = "file" /\ path = "") => NoStore
            /\ kind \notin {"memory", "file"} => NoStore

\* C35, amended: NewStore returns an in-memory store for the kinds "memory"
\* and "mem", whatever the path, a file-backed store (or the error of its
\* load) for kind "file" with a non-empty path, an error and no store for
\* kind "file" with an empty path, and an error and no store for every
\* kind other than "memory", "mem" and "file".
C35_NewStore ==
    dcall.fn = "NewStore" =>
        LET kind == dcall.arg.kind
            path == dcall.arg.path
        IN  /\ kind \in {"memory", "mem"} => StoreOf("memory")
            /\ (kind = "file" /\ path # "") => StoreOf("file")
            /\ (kind = "file" /\ path = "") => NoStore
            /\ kind \notin {"memory", "mem", "file"} => NoStore

C35_Witness ==
    /\ dcall.fn = "NewStore" /\ dcall.arg.kind = "mem" /\ dcall.arg.path # ""
    /\ backend = "memory" /\ phase = "ready" /\ file.kind = "json"
    /\ products = EmptyMap

(***************************************************************************)
(* BulkImport and the cancellation of its context.                         *)
(***************************************************************************)
\* C36: once the feeder of a BulkImport, on either backend, has found the
\* context done, it sends no further record of the batch on jobs; the
\* feeder of the in-memory store has then returned and closed jobs.
C36_StopsFeeding ==
    \A p \in callers :
        bulk[p].seen =>
            /\ ~bulk[p].late
            /\ backend = "memory" => (~bulk[p].feeding /\ bulk[p].closed)

\* the map m holds every key of the map l, with the same record
Keeps(m, l) == \A id \in DOMAIN l : Has(m, id) /\ m[id] = l[id]

\* C37: on either backend, when a worker of a BulkImport begins to handle
\* a record after the context was cancelled, the record is neither staged
\* for the merge nor admitted to the insertion into the map, and the map
\* does not change; and no step of a BulkImport, before or after the
\* cancellation, takes back a record staged or inserted or changes a
\* record that was resident before the call.
C37_NoNewWorkAfterCancel ==
    [][\A p \in callers :
          (req[p].op = "BulkImport" /\ pc[p] \notin {"idle", "done"} /\ pc'[p] # "idle") =>
              /\ (bulk[p].ctx /\ bulk'[p].got # bulk[p].got /\ bulk'[p].todo = bulk[p].todo)
                    => /\ bulk'[p].toAdd = bulk[p].toAdd
                       /\ bulk'[p].chk = bulk[p].chk
                       /\ products' = products
                       /\ Len(bulk'[p].errs) = Len(bulk[p].errs) + 1
                       /\ Is(bulk'[p].errs[Len(bulk'[p].errs)], "ctx")
              /\ Keeps(bulk'[p].toAdd, bulk[p].toAdd)
              /\ Keeps(products', products)]_vars

C37_Witness ==
    \E p \in callers :
        /\ Returned(p, "BulkImport") /\ bulk[p].ctx /\ Len(req[p].batch) = 2
        /\ Contains(res[p], "ctx")
        /\ Cardinality(Added) = 1 /\ Keeps(products, pre.products)
        /\ pre.products # EmptyMap

\* what Create of the one record of caller p's batch, run alone on the map
\* of before the call with a live context, can return and leave
CreateOfLone(p) ==
    Alone(pre.products,
          Req("Create", req[p].batch[1].ID, req[p].batch[1], NoFilter, <<>>, FALSE))

\* C38: on either backend, with a context that stays live and a disk that
\* works, a BulkImport of a batch of one record leaves the map as Create
\* of that record leaves it, and the error it returns is, under the
\* wrapping with the record's ID, the error Create returns: none,
\* Duplicate with the ID, or Invalid with the same offending field.
C38_LoneRecordAsCreate ==
    \A p \in callers :
        (Imported(p) /\ Len(req[p].batch) = 1) =>
            \E a \in CreateOfLone(p) :
                /\ products = a.products
                /\ Cause(res[p]) = a.res

(***************************************************************************)
(* The file store's calls that fail, on a disk that can fail.              *)
(***************************************************************************)
\* caller p has returned from a Create, Update or Delete of the file store
\* with an error of kind Invalid, NotFound or Duplicate or with the error
\* of the context
Refused(p) ==
    /\ backend = "file"
    /\ \E op \in {"Create", "Update", "Delete"} : Returned(p, op)
    /\ \E k \in {"Invalid", "NotFound", "Duplicate", "ctx"} : Is(res[p], k)

\* C39: a Create, Update or Delete of the file store that fails with
\* Invalid, NotFound, Duplicate or the error of the context has not called
\* saveToFile: the canonical file, the temporary file (also one that an
\* earlier failed save left behind) and the map are as before the call.
C39_RefusedCallSavesNothing ==
    \A p \in callers :
        Refused(p) => (Snapshot = pre /\ bulk[p].saves = 0)

C39_Witness ==
    \E p \in callers :
        /\ Refused(p) /\ Is(res[p], "Duplicate")
        /\ tmp # Absent /\ file # Absent /\ ioFailed

\* caller p has come back from a saveToFile that returned nil
SaveDone(p) ==
    /\ backend = "file" /\ phase = "ready"
    /\ req[p].op \in WriteOps /\ pc[p] \in {"unlock", "done"}
    /\ bulk[p].saves > 0 /\ ~Contains(res[p], "io")

\* C40: after a Create of the file store has returned the error of its
\* save, the record is in the map: a later Create with the same ID and a
\* record that passes the validation, under a live context, returns
\* Duplicate with the ID and leaves the map as it is; and when a later
\* Create, Update, Delete or BulkImport comes back from a save that
\* succeeded, the canonical file holds that record (as encoding/json
\* writes it), as long as no call has replaced or deleted it in between.
C40_FailedCreateStays ==
    \A p \in callers : \A id \in unsaved :
        /\ Has(pre.products, id)
        /\ (/\ backend = "file" /\ Returned(p, "Create") /\ req[p].product.ID = id
            /\ CreateChecks(req[p].ctxDone, req[p].product) = Ok)
              => (res[p] = NewDuplicateProductError(id) /\ products = pre.products)
        /\ (SaveDone(p) /\ Has(products, id) /\ products[id] = pre.products[id])
              => JSONProduct(pre.products[id]) \in Holding(file, id)

C40_Witness ==
    \E p \in callers : \E id \in unsaved :
        /\ SaveDone(p) /\ pc[p] = "done" /\ req[p].op \in {"Update", "Delete", "BulkImport"}
        /\ Has(products, id) /\ products[id] = pre.products[id]
        /\ JSONProduct(products[id]) \in Holding(file, id)
        /\ Holding(pre.file, id) = {}
        /\ products # pre.products

====
